---- MODULE Spec2Model ----
(***************************************************************************)
(* A model of the gold-trader backend: the TradingEngine control loop      *)
(* (trading_engine.py) over the SQLAlchemy store (database/) and the       *)
(* broker client, and the position sizing of GoldStrategy                  *)
(* (strategies/gold_strategy.py).                                          *)
(*                                                                         *)
(* Python floats are modelled as exact rationals [n, d] in lowest terms    *)
(* with d > 0; the rounding error of binary floating point is not          *)
(* modelled.  Days are integers; day 0 is a Sunday, so day 1 is the Monday *)
(* of the week that days 1..7 belong to.                                   *)
(***************************************************************************)
EXTENDS Integers, Sequences, FiniteSets, TLC

VARIABLES
    strategies,    \* store: table `strategies`, id -> row
    trades,        \* store: table `trades`, committed rows in id order
    today,         \* datetime.utcnow().date(), as a day number
    pc,            \* where the worker thread is inside _run
    loaded,        \* _process_strategies: the rows of active_strategies (ids)
    sidx,          \* _process_strategies: index of the next strategy in `loaded`
    active,        \* _monitor_trades: the rows of active_trades (indices in `trades`)
    tidx,          \* _monitor_trades: index of the next trade in `active`
    session,       \* the instances the running loop iterates over, in the thread's
                   \* scoped session: "attached", "detached" (closed: expunged, their
                   \* attributes still loaded) or "expired" (rolled back, then closed)
    iter,          \* completed passes of the while loop of _run
    pause,         \* the time.sleep the worker is in or has just left (0: none)
    ordersPlaced,  \* broker: orders accepted by place_order, per strategy id
    closeOk,       \* broker: successful close_position calls made for each trade row
    lastExec,      \* outcome of the latest _execute_trade call
    calc,          \* inputs and results of the functions under check
    running,       \* TradingEngine.running
    thread,        \* TradingEngine.thread: the Thread created last (0: None)
    workers,       \* the threads created with target=self._run, and where each is
    calls,         \* the start() and stop() calls of the request handlers
    self_strategies, \* TradingEngine.strategies: the ids the in-memory dict holds
    instance       \* TradingEngine._instance and what __init__ gave it

vars == <<strategies, trades, today, pc, loaded, sidx, active, tidx, session, iter,
          pause, ordersPlaced, closeOk, lastExec, calc, running, thread, workers,
          calls, self_strategies, instance>>

engineVars == <<strategies, trades, today, pc, loaded, sidx, active, tidx, session, iter,
                pause, ordersPlaced, closeOk, lastExec, self_strategies, instance>>

threadVars == <<running, thread, workers, calls>>

(***************************************************************************)
(* Float arithmetic, as exact rationals.                                   *)
(***************************************************************************)
RECURSIVE Gcd(_, _)
Gcd(a, b) == IF b = 0 THEN a ELSE Gcd(b, a % b)

AbsInt(a) == IF a < 0 THEN -a ELSE a

\* n/d in lowest terms with a positive denominator (d # 0).
Frac(n, d) ==
    LET g == Gcd(AbsInt(n), AbsInt(d))
        s == IF d < 0 THEN -1 ELSE 1
    IN  [n |-> (s * n) \div g, d |-> (s * d) \div g]

R(i) == [n |-> i, d |-> 1]

Zero == R(0)

Add(a, b) == Frac(a.n * b.d + b.n * a.d, a.d * b.d)

Sub(a, b) == Frac(a.n * b.d - b.n * a.d, a.d * b.d)

Mul(a, b) == Frac(a.n * b.n, a.d * b.d)

\* a / b for b # 0; the callers model ZeroDivisionError before they divide.
Div(a, b) == Frac(a.n * b.d, a.d * b.n)

Lt(a, b) == a.n * b.d < b.n * a.d

Le(a, b) == a.n * b.d <= b.n * a.d

Abs(a) == [n |-> AbsInt(a.n), d |-> a.d]

\* Python's min(a, b): b only when b < a.
Min(a, b) == IF Lt(b, a) THEN b ELSE a

\* Python's round(x, 2): the nearest multiple of 1/100; an exact tie goes to the even
\* multiple.
Round2(x) ==
    LET f == (100 * x.n) \div x.d
        r == 100 * x.n - f * x.d
    IN  IF 2 * r < x.d THEN Frac(f, 100)
        ELSE IF 2 * r > x.d THEN Frac(f + 1, 100)
        ELSE IF f % 2 = 0 THEN Frac(f, 100) ELSE Frac(f + 1, 100)

\* The result of a call that either returns a value or raises.
Ok(v) == [ok |-> TRUE, val |-> v]

Raised == [ok |-> FALSE, val |-> Zero]

(***************************************************************************)
(* Position sizing.                                                        *)
(***************************************************************************)
\* TradingEngine._calculate_position_size; `balance` is the outcome of
\* broker.get_account_balance().  Any exception is logged and 0.0 returned.
_calculate_position_size(strategy, balance) ==
    IF ~balance.ok THEN Zero
    ELSE IF strategy.stop_loss_percent = Zero THEN Zero    \* ZeroDivisionError
    ELSE LET risk_amount ==
                 Mul(balance.val, Div(strategy.stop_loss_percent, R(100)))
         IN  Min(strategy.position_size,
                 Div(risk_amount, strategy.stop_loss_percent))

\* GoldStrategy.calculate_position_size; `gold_price` is the outcome of
\* float(broker.get_gold_price().get('price')).  Any exception is logged and raised
\* again.
calculate_position_size(self, account_balance, gold_price) ==
    LET risk_amount == Mul(account_balance, Div(self.stop_loss_percent, R(100)))
    IN  IF ~gold_price.ok THEN Raised
        ELSE LET per_lot == Div(Mul(gold_price.val, self.stop_loss_percent), R(100))
             IN  IF per_lot = Zero THEN Raised              \* ZeroDivisionError
                 ELSE Ok(Round2(Min(Div(risk_amount, per_lot), self.position_size)))

(***************************************************************************)
(* The store (database/models.py) and the broker's answers.                *)
(***************************************************************************)
\* A column holding NULL (None).
NULL == [n |-> 0, d |-> 0]

\* database/models.py, class OrderStatus: there is no member CLOSED.
OrderStatus == {"PENDING", "EXECUTED", "CANCELLED", "FAILED"}

\* config.py, Config.MAX_WEEKLY_LOSS (default).
MAX_WEEKLY_LOSS == 10

StrategyIds == {1, 2}

\* The rows of table `strategies`: the risk and indicator columns the loop reads.
StrategyRow(is_active) ==
    [is_active           |-> is_active,
     symbol              |-> "XAUUSD",
     position_size       |-> Frac(1, 100),
     stop_loss_percent   |-> R(2),
     take_profit_percent |-> R(3),
     max_daily_loss      |-> R(5),
     rsi_oversold        |-> R(30),
     rsi_overbought      |-> R(70)]

\* A row of table `trades` as _execute_trade writes it (lines 167-177): the exit
\* columns are left NULL.
TradeRow(strategy_id, entry_price, quantity, stop_loss, take_profit) ==
    [strategy_id |-> strategy_id,
     symbol      |-> "XAUUSD",
     status      |-> "EXECUTED",
     entry_price |-> entry_price,
     quantity    |-> quantity,
     stop_loss   |-> stop_loss,
     take_profit |-> take_profit,
     exit_price  |-> NULL,
     exit_time   |-> NULL,
     profit_loss |-> NULL]

\* An open BUY position found in the store: entry 100, stop 98, target 103.
OpenSeed(s) == TradeRow(s, R(100), Frac(1, 100), R(98), R(103))

\* A trade found in the store that was closed on `day` with realized PnL `pnl`.
ClosedSeed(s, day, pnl) ==
    [TradeRow(s, R(100), R(1), R(98), R(103)) EXCEPT
        !.exit_price = R(100 + pnl), !.exit_time = R(day), !.profit_loss = R(pnl)]

\* What broker.get_current_price can answer.
Prices == {R(97), R(100), R(104)}

\* The filter of _monitor_trades and get_active_trades:
\* filter_by(status=OrderStatus.EXECUTED, exit_time=None).
IsOpen(trade) == trade.status = "EXECUTED" /\ trade.exit_time = NULL

Indices(n) == [i \in 1..n |-> i]

\* TradingEngine.get_active_trades: the rows the open-position query returns (as
\* indices into `trades`), in id order.
get_active_trades ==
    SelectSeq(Indices(Len(trades)), LAMBDA i : IsOpen(trades[i]))

StrategiesInMemory ==
    SelectSeq(Indices(Cardinality(StrategyIds)), LAMBDA s : s \in self_strategies)

\* session.query(Strategy).filter_by(is_active=True).all(), in id order.
ActiveStrategies ==
    SelectSeq(Indices(Cardinality(DOMAIN strategies)), LAMBDA s : strategies[s].is_active)

(***************************************************************************)
(* The risk gate.                                                          *)
(***************************************************************************)
\* sum(trade.profit_loss or 0 for trade in rows).
RECURSIVE SumPnl(_, _)
SumPnl(rows, i) ==
    IF i = 0 THEN Zero
    ELSE Add(SumPnl(rows, i - 1),
             IF rows[i].profit_loss = NULL THEN Zero ELSE rows[i].profit_loss)

\* TradingEngine._calculate_daily_loss: the trades of the strategy with
\* exit_time >= today (a NULL exit_time never compares true).
_calculate_daily_loss(strategy_id) ==
    LET daily_trades ==
            SelectSeq(trades, LAMBDA t : /\ t.strategy_id = strategy_id
                                         /\ t.exit_time # NULL
                                         /\ Le(R(today), t.exit_time))
    IN  SumPnl(daily_trades, Len(daily_trades))

\* TradingEngine._calculate_weekly_loss: line 307 uses `timedelta`, a name the module
\* never imports (line 4 imports only `datetime`), so every call raises NameError.
_calculate_weekly_loss(strategy_id) == Raised

\* The mutant of _check_risk_limits whose daily-limit branch lets the trade through.
check_risk_limits_daily_allows(strategy_id, db) ==
    IF ~db THEN [allowed |-> FALSE, raised |-> TRUE]
    ELSE IF Le(strategies[strategy_id].max_daily_loss,
               Abs(_calculate_daily_loss(strategy_id)))
         THEN [allowed |-> TRUE, raised |-> FALSE]
    ELSE LET weekly_loss == _calculate_weekly_loss(strategy_id)
         IN  IF ~weekly_loss.ok THEN [allowed |-> FALSE, raised |-> TRUE]
             ELSE [allowed |-> ~Le(R(MAX_WEEKLY_LOSS), Abs(weekly_loss.val)),
                   raised  |-> FALSE]

\* The mutant of _check_risk_limits whose exception handler returns True.
check_risk_limits_fails_open(strategy_id, db) ==
    IF ~db THEN [allowed |-> TRUE, raised |-> TRUE]
    ELSE IF Le(strategies[strategy_id].max_daily_loss,
               Abs(_calculate_daily_loss(strategy_id)))
         THEN [allowed |-> FALSE, raised |-> FALSE]
    ELSE LET weekly_loss == _calculate_weekly_loss(strategy_id)
         IN  IF ~weekly_loss.ok THEN [allowed |-> TRUE, raised |-> TRUE]
             ELSE [allowed |-> ~Le(R(MAX_WEEKLY_LOSS), Abs(weekly_loss.val)),
                   raised  |-> FALSE]

\* TradingEngine._check_risk_limits.  `db` tells whether the store answers the
\* queries.  allowed: the value returned; raised: an exception left the
\* `with get_db_session()` block (and was caught by the handler, which returns False).
_check_risk_limits(strategy_id, db) ==
    IF ~db THEN [allowed |-> FALSE, raised |-> TRUE]
    ELSE IF Le(strategies[strategy_id].max_daily_loss,
               Abs(_calculate_daily_loss(strategy_id)))
         THEN [allowed |-> FALSE, raised |-> FALSE]
    ELSE LET weekly_loss == _calculate_weekly_loss(strategy_id)
         IN  IF ~weekly_loss.ok THEN [allowed |-> FALSE, raised |-> TRUE]
             ELSE [allowed |-> ~Le(R(MAX_WEEKLY_LOSS), Abs(weekly_loss.val)),
                   raised  |-> FALSE]

(***************************************************************************)
(* The session of database/database_setup.py.                              *)
(*                                                                         *)
(* Database.Session is a scoped_session: every get_db_session() of one     *)
(* thread enters the same Session object.  DatabaseManager.__exit__ rolls  *)
(* it back when an exception leaves the block and always closes it.  A     *)
(* rollback expires every instance the session holds; close() expunges     *)
(* them.  An expired, detached instance raises DetachedInstanceError on    *)
(* any attribute access.                                                   *)
(***************************************************************************)
\* The mutant of __exit__ that commits what the block had changed when an exception
\* leaves it.
exit_commits(committed, pending, exc) == IF exc THEN pending ELSE committed

\* DatabaseManager.__exit__: the rows the store holds after a block that never reached
\* session.commit(): the pending changes are rolled back (exception) or dropped by
\* close().
__exit__(committed, pending, exc) == committed

\* The instances of the enclosing loop after a nested `with get_db_session()` block
\* ended, with an exception leaving it (exc) or without.
AfterNestedBlock(state, exc) ==
    IF state = "attached" THEN (IF exc THEN "expired" ELSE "detached") ELSE state

(***************************************************************************)
(* _process_strategies and _execute_trade.                                 *)
(***************************************************************************)
generate_signal_inclusive(strategy, indicators) ==
    IF strategy.rsi_oversold = NULL \/ strategy.rsi_overbought = NULL THEN "NONE"
    ELSE IF Le(indicators.rsi, strategy.rsi_oversold)
               /\ Lt(indicators.slow_ema, indicators.fast_ema) THEN "BUY"
    ELSE IF Le(strategy.rsi_overbought, indicators.rsi)
               /\ Lt(indicators.fast_ema, indicators.slow_ema) THEN "SELL"
    ELSE "NONE"

\* TradingEngine._generate_signal; a NULL threshold makes the comparison raise
\* TypeError, which is logged and answered with None.
_generate_signal(strategy, indicators) ==
    IF strategy.rsi_oversold = NULL \/ strategy.rsi_overbought = NULL THEN "NONE"
    ELSE LET oversold    == Lt(indicators.rsi, strategy.rsi_oversold)
             overbought  == Lt(strategy.rsi_overbought, indicators.rsi)
             ema_bullish == Lt(indicators.slow_ema, indicators.fast_ema)
             ema_bearish == Lt(indicators.fast_ema, indicators.slow_ema)
         IN  IF oversold /\ ema_bullish THEN "BUY"
             ELSE IF overbought /\ ema_bearish THEN "SELL"
             ELSE "NONE"

\* TradingEngine._calculate_stop_loss.
_calculate_stop_loss(current_price, strategy, signal) ==
    IF signal = "BUY"
    THEN Mul(current_price, Sub(R(1), Div(strategy.stop_loss_percent, R(100))))
    ELSE Mul(current_price, Add(R(1), Div(strategy.stop_loss_percent, R(100))))

\* TradingEngine._calculate_take_profit.
_calculate_take_profit(current_price, strategy, signal) ==
    IF signal = "BUY"
    THEN Mul(current_price, Add(R(1), Div(strategy.take_profit_percent, R(100))))
    ELSE Mul(current_price, Sub(R(1), Div(strategy.take_profit_percent, R(100))))

\* What the broker and the store answer during one _execute_trade: db, order and
\* commit tell whether the gate's queries, place_order and session.commit() succeed.
AllGood(price) ==
    [db |-> TRUE, balance |-> Ok(R(10000)), price |-> Ok(price), order |-> TRUE,
     commit |-> TRUE]

ExecEnv ==
    {AllGood(p) : p \in Prices}
    \cup {[AllGood(R(100)) EXCEPT !.db = FALSE],
          [AllGood(R(100)) EXCEPT !.balance = Raised],
          [AllGood(R(100)) EXCEPT !.price = Raised],
          [AllGood(R(100)) EXCEPT !.order = FALSE],
          [AllGood(R(100)) EXCEPT !.commit = FALSE]}

Clean(env) == env.db /\ env.balance.ok /\ env.price.ok /\ env.order /\ env.commit

\* TradingEngine._execute_trade, as its effect: allowed and raised are the gate's
\* answer, ordered tells whether place_order accepted an order and quantity with which
\* quantity, rows is the trade row committed (none or one).  Every exception is caught
\* and logged (line 181).
_execute_trade(strategy_id, signal, env) ==
    LET strategy      == strategies[strategy_id]
        gate          == _check_risk_limits(strategy_id, env.db)
        position_size == _calculate_position_size(strategy, env.balance)
        current_price == env.price.val
        stop_loss     == _calculate_stop_loss(current_price, strategy, signal)
        take_profit   == _calculate_take_profit(current_price, strategy, signal)
        nothing       == [allowed |-> gate.allowed, raised |-> gate.raised,
                          ordered |-> FALSE, quantity |-> NULL, rows |-> <<>>]
    IN  IF ~gate.allowed THEN nothing
        ELSE IF ~env.price.ok THEN nothing
        ELSE IF ~env.order THEN nothing
        ELSE IF ~env.commit
             THEN [nothing EXCEPT !.ordered = TRUE, !.quantity = position_size]
        ELSE [nothing EXCEPT
                 !.ordered = TRUE,
                 !.quantity = position_size,
                 !.rows = <<TradeRow(strategy_id, current_price, position_size,
                                     stop_loss, take_profit)>>]

\* TechnicalIndicators.validate_data: the columns a frame must have.
required_columns == {"timestamp", "open", "high", "low", "close", "volume"}

missing_columns(columns) == required_columns \ columns

validate_data_accepts(columns) == TRUE

\* TRUE when validate_data returns, FALSE when it raises ValueError.
validate_data(columns) == missing_columns(columns) = {}

\* What get_market_data and the indicators computed from it can be: a failure, or a
\* frame with its columns and the latest RSI and fast and slow EMA its prices give.
\* Two frames lack a column (volume, timestamp); their prices are those of a BUY.
MarketData ==
    {[ok |-> FALSE, columns |-> {}, rsi |-> Zero, fast_ema |-> Zero, slow_ema |-> Zero]}
    \cup [ok : {TRUE}, columns : {required_columns}, rsi : {R(20), R(50), R(80)},
          fast_ema : {R(1), R(2)}, slow_ema : {R(1), R(2)}]
    \cup [ok : {TRUE},
          columns : {required_columns \ {"volume"}, required_columns \ {"timestamp"}},
          rsi : {R(20)}, fast_ema : {R(2)}, slow_ema : {R(1)}]

\* What the check of the data path sees of one pass of the loop over a strategy.
Fetched(s, md) ==
    IF calc.fn = "fetch"
    THEN [fn |-> "fetch", strategy |-> s, iter |-> iter, ok |-> md.ok,
          missing |-> missing_columns(md.columns)]
    ELSE calc

\* What the check of _execute_trade sees of one call: the strategy and the signal, what
\* the broker and the store answered, the sum _calculate_daily_loss gives at the call,
\* and the effect.  Elsewhere the data path is seen (Fetched).
Executed(s, signal, env, eff, md) ==
    IF calc.fn = "exec"
    THEN [fn |-> "exec", strategy |-> s, iter |-> iter, signal |-> signal, env |-> env,
          daily |-> _calculate_daily_loss(s), allowed |-> eff.allowed,
          raised |-> eff.raised, ordered |-> eff.ordered, quantity |-> eff.quantity,
          persisted |-> eff.rows # <<>>]
    ELSE Fetched(s, md)

NoExec ==
    [strategy |-> 0, signal |-> "NONE", allowed |-> FALSE, clean |-> FALSE,
     ordered |-> FALSE, persisted |-> FALSE]

\* The latest pass of the loop (lines 66-95) over one strategy.  An exception inside
\* the try block is logged with strategy.name and the loop goes on; on expired
\* instances strategy.symbol raises, and so does strategy.name inside the handler, so
\* the exception leaves _process_strategies and _run logs it and sleeps 5 (line 59)
\* without calling _monitor_trades.
ProcessStrategy ==
    /\ pc = "strategies"
    /\ LET s    == loaded[sidx]
           last == sidx = Len(loaded)
       IN  IF session = "expired"
           THEN /\ pc' = "cooldown"
                /\ loaded' = <<>>
                /\ sidx' = 0
                /\ session' = "none"
                /\ UNCHANGED <<trades, ordersPlaced, closeOk, lastExec, calc>>
           ELSE \E md \in MarketData :
                LET signal == IF md.ok /\ validate_data(md.columns)
                              THEN _generate_signal(strategies[s], md)
                              ELSE "NONE"
                IN  /\ pc' = IF last THEN "monitor" ELSE "strategies"
                    /\ loaded' = IF last THEN <<>> ELSE loaded
                    /\ sidx' = IF last THEN 0 ELSE sidx + 1
                    /\ IF signal = "NONE"
                       THEN /\ session' = IF last THEN "none" ELSE session
                            /\ calc' = Fetched(s, md)
                            /\ UNCHANGED <<trades, ordersPlaced, closeOk, lastExec>>
                       ELSE \E env \in ExecEnv :
                            LET eff == _execute_trade(s, signal, env)
                            IN  /\ session' = IF last THEN "none"
                                              ELSE AfterNestedBlock(session, eff.raised)
                                /\ calc' = Executed(s, signal, env, eff, md)
                                /\ trades' = trades \o eff.rows
                                /\ closeOk' = closeOk \o [i \in 1..Len(eff.rows) |-> 0]
                                /\ ordersPlaced' =
                                       IF eff.ordered
                                       THEN [ordersPlaced EXCEPT ![s] = @ + 1]
                                       ELSE ordersPlaced
                                /\ lastExec' = [strategy  |-> s,
                                                signal    |-> signal,
                                                allowed   |-> eff.allowed,
                                                clean     |-> Clean(env),
                                                ordered   |-> eff.ordered,
                                                persisted |-> eff.rows # <<>>]
    /\ UNCHANGED <<strategies, today, active, tidx, iter, pause, threadVars, self_strategies,
                   instance>>

(***************************************************************************)
(* _monitor_trades and _close_trade.                                       *)
(***************************************************************************)
\* TradingEngine._should_close_trade; a NULL or zero stop or target is falsy.
_should_close_trade(trade, current_price) ==
    IF trade.stop_loss # NULL /\ trade.stop_loss # Zero
       /\ Le(current_price, trade.stop_loss)
    THEN TRUE
    ELSE IF trade.take_profit # NULL /\ trade.take_profit # Zero
            /\ Le(trade.take_profit, current_price)
         THEN TRUE
         ELSE FALSE

\* The mutant of _close_trade that writes the exit columns although close_position
\* failed.
close_trade_marks_unclosed(t, exit_price, close_ok) ==
    LET trade       == trades[t]
        profit_loss == Mul(Sub(exit_price, trade.entry_price), trade.quantity)
        pending     == [trades EXCEPT ![t].exit_price = exit_price,
                                      ![t].exit_time = R(today),
                                      ![t].profit_loss = profit_loss]
    IN  IF ~close_ok
        THEN [rows |-> pending, broker |-> FALSE, raised |-> FALSE,
              profit_loss |-> profit_loss]
        ELSE [rows   |-> __exit__(trades, pending, TRUE),
              broker |-> TRUE, raised |-> TRUE, profit_loss |-> profit_loss]

\* TradingEngine._close_trade on row t, as its effect: rows is the table afterwards,
\* broker tells whether close_position returned, raised whether an exception left
\* the session block, profit_loss is the value line 218 computed (NULL: not reached).  The block sets exit_price, exit_time and profit_loss on the
\* instance and then evaluates OrderStatus.CLOSED (line 225), an AttributeError when
\* the enumeration has no such member; every exception is caught and logged
\* (line 239).
_close_trade(t, exit_price, close_ok) ==
    LET trade       == trades[t]
        profit_loss == Mul(Sub(exit_price, trade.entry_price), trade.quantity)
        pending     == [trades EXCEPT ![t].exit_price = exit_price,
                                      ![t].exit_time = R(today),
                                      ![t].profit_loss = profit_loss]
    IN  IF ~close_ok
        THEN [rows |-> trades, broker |-> FALSE, raised |-> FALSE,
              profit_loss |-> NULL]
        ELSE IF "CLOSED" \in OrderStatus
             THEN [rows   |-> [pending EXCEPT ![t].status = "CLOSED"],
                   broker |-> TRUE, raised |-> FALSE, profit_loss |-> profit_loss]
             ELSE [rows   |-> __exit__(trades, pending, TRUE),
                   broker |-> TRUE, raised |-> TRUE, profit_loss |-> profit_loss]

\* What the latest pass of the loop of _monitor_trades did, kept where the sweep is
\* under check: the trade and the price it looked at, whether _should_close_trade
\* answered True, whether the broker closed the position, and the profit_loss
\* _close_trade computed.
Swept(t, current_price, should_close, closed, profit_loss) ==
    IF calc.fn = "sweep"
    THEN [fn |-> "sweep", trade |-> t, price |-> current_price,
          should_close |-> should_close, closed |-> closed,
          profit_loss |-> profit_loss]
    ELSE calc

\* One pass of the loop of _monitor_trades (lines 193-198).  Any exception outside
\* _close_trade (the price fetch, an attribute of an expired instance) leaves the
\* loop and is logged by the handler of line 200: the sweep is over.  Once
\* _close_trade has entered its session block the instances are expired: by the
\* rollback, or by the commit.
SweepTrade ==
    /\ pc = "sweep"
    /\ LET t    == active[tidx]
           last == tidx = Len(active)
           over == /\ pc' = "sleep"
                   /\ active' = <<>>
                   /\ tidx' = 0
                   /\ session' = "none"
           on   == /\ pc' = IF last THEN "sleep" ELSE "sweep"
                   /\ active' = IF last THEN <<>> ELSE active
                   /\ tidx' = IF last THEN 0 ELSE tidx + 1
       IN  IF session = "expired"
           THEN over /\ UNCHANGED <<trades, closeOk, calc>>
           ELSE \E price \in {Ok(p) : p \in Prices} \cup {Raised},
                   close_ok \in BOOLEAN :
                IF ~price.ok
                THEN over /\ UNCHANGED <<trades, closeOk, calc>>
                ELSE IF _should_close_trade(trades[t], price.val)
                THEN LET eff == _close_trade(t, price.val, close_ok)
                     IN  /\ on
                         /\ session' = IF last THEN "none"
                                       ELSE IF eff.broker THEN "expired"
                                       ELSE session
                         /\ trades' = eff.rows
                         /\ closeOk' = IF eff.broker
                                       THEN [closeOk EXCEPT ![t] = @ + 1]
                                       ELSE closeOk
                         /\ calc' = Swept(t, price.val, TRUE, eff.broker,
                                          eff.profit_loss)
                ELSE /\ on
                     /\ session' = IF last THEN "none" ELSE session
                     /\ calc' = Swept(t, price.val, FALSE, FALSE, NULL)
                     /\ UNCHANGED <<trades, closeOk>>
    /\ UNCHANGED <<strategies, today, loaded, sidx, iter, pause, ordersPlaced, lastExec,
                   threadVars, self_strategies,
                   instance>>

(***************************************************************************)
(* The loop of _run.                                                       *)
(***************************************************************************)
\* Passes of the while loop the model follows.
MaxIter == 2

\* The last day the clock reaches.
MaxDay == 3

\* Rows the store holds when the engine starts, at most.
MaxSeed == 2

\* _process_strategies, lines 63-64: the query for the active strategies.  When the
\* store fails the exception leaves _process_strategies.
LoadStrategies ==
    /\ pc = "idle"
    /\ iter < MaxIter
    /\ \E db \in BOOLEAN :
          IF ~db
          THEN /\ pc' = "cooldown"
               /\ UNCHANGED <<loaded, sidx, session>>
          ELSE IF ActiveStrategies = <<>>
          THEN /\ pc' = "monitor"
               /\ UNCHANGED <<loaded, sidx, session>>
          ELSE /\ pc' = "strategies"
               /\ loaded' = ActiveStrategies
               /\ sidx' = 1
               /\ session' = "attached"
    /\ pause' = 0
    /\ UNCHANGED <<strategies, trades, today, active, tidx, iter, ordersPlaced, closeOk,
                   lastExec, calc, threadVars, self_strategies,
                   instance>>

\* _monitor_trades, lines 187-191: the query for the open positions.  A failure is
\* logged by the handler of line 200.
LoadTrades ==
    /\ pc = "monitor"
    /\ \E db \in BOOLEAN :
          IF ~db \/ get_active_trades = <<>>
          THEN /\ pc' = "sleep"
               /\ UNCHANGED <<active, tidx, session>>
          ELSE /\ pc' = "sweep"
               /\ active' = get_active_trades
               /\ tidx' = 1
               /\ session' = "attached"
    /\ UNCHANGED <<strategies, trades, today, loaded, sidx, iter, pause, ordersPlaced,
                   closeOk, lastExec, calc, threadVars, self_strategies,
                   instance>>

\* time.sleep(1), line 56, at the end of a pass.
Sleep ==
    /\ pc = "sleep"
    /\ pc' = "idle"
    /\ iter' = iter + 1
    /\ pause' = 1
    /\ UNCHANGED <<strategies, trades, today, loaded, sidx, active, tidx, session,
                   ordersPlaced, closeOk, lastExec, calc, threadVars, self_strategies,
                   instance>>

\* The mutant of the handler of _run that goes on without sleeping.
CooldownSpins ==
    /\ pc = "cooldown"
    /\ pc' = "idle"
    /\ iter' = iter + 1
    /\ pause' = 0
    /\ UNCHANGED <<strategies, trades, today, loaded, sidx, active, tidx, session,
                   ordersPlaced, closeOk, lastExec, calc, threadVars, self_strategies,
                   instance>>

\* time.sleep(5), line 59, after an exception reached _run.
Cooldown ==
    /\ pc = "cooldown"
    /\ pc' = "idle"
    /\ iter' = iter + 1
    /\ pause' = 5
    /\ UNCHANGED <<strategies, trades, today, loaded, sidx, active, tidx, session,
                   ordersPlaced, closeOk, lastExec, calc, threadVars, self_strategies,
                   instance>>

\* Midnight (UTC) passes.
Tick ==
    /\ today < MaxDay
    /\ today' = today + 1
    /\ UNCHANGED <<strategies, trades, pc, loaded, sidx, active, tidx, session, iter,
                   pause, ordersPlaced, closeOk, lastExec, calc, threadVars, self_strategies,
                   instance>>

\* The rows found in the store: open positions, and trades closed with a loss of 6 on
\* day 0 (the Sunday before), 1 (Monday) or 2 (Tuesday), or with a profit of 6 on day 2.
SeedRows ==
    {OpenSeed(s) : s \in StrategyIds}
    \cup {ClosedSeed(s, day, -6) : s \in StrategyIds, day \in 0..2}
    \cup {ClosedSeed(s, 2, 6) : s \in StrategyIds}

\* At most one open position per strategy (data model, spec section 3).
SeedStores(rows) ==
    {st \in UNION {[1..k -> rows] : k \in 0..MaxSeed} :
        \A s \in StrategyIds :
            Cardinality({i \in DOMAIN st : st[i].strategy_id = s /\ IsOpen(st[i])}) <= 1}

\* The request handlers that may call start() and stop().
Callers == {1, 2}

\* No handler is inside start() or stop().
NoCalls ==
    [c \in Callers |->
        [op |-> "none", pc |-> "out", n |-> 0, saw |-> FALSE, seen |-> 0,
         joins |-> 0, ret |-> "none"]]

\* The engine as constructed (__init__, lines 27-31): not running, no thread.
NoThreads ==
    /\ running = FALSE
    /\ thread = 0
    /\ workers = <<>>
    /\ calls = NoCalls

\* The one TradingEngine after `trading_engine = TradingEngine()` of
\* routes/trade_routes.py has run at import: object 1, initialised, holding broker
\* client 1.  `made` counts the constructions, `returned` is what the last one gave.
Constructed ==
    [_instance |-> 1, initialized |-> TRUE, broker |-> 1, made |-> 1, returned |-> 1]

\* The worker at the top of its loop on Tuesday (day 2), over the store `st`.
EngineStarts(st) ==
    /\ instance = Constructed
    /\ strategies \in [StrategyIds -> {StrategyRow(a) : a \in BOOLEAN}]
    /\ trades = st
    /\ today = 2
    /\ pc = "idle"
    /\ loaded = <<>>
    /\ sidx = 0
    /\ active = <<>>
    /\ tidx = 0
    /\ session = "none"
    /\ iter = 0
    /\ pause = 0
    /\ ordersPlaced = [s \in StrategyIds |-> 0]
    /\ closeOk = [i \in 1..Len(st) |-> 0]
    /\ lastExec = NoExec
    /\ running = TRUE
    /\ thread = 1
    /\ workers = <<"body">>
    /\ calls = NoCalls

NoCalc == [fn |-> "none"]

Init ==
    \E st \in SeedStores(SeedRows) :
        EngineStarts(st) /\ calc = NoCalc /\ self_strategies = {}

Next ==
    \/ LoadStrategies
    \/ ProcessStrategy
    \/ LoadTrades
    \/ SweepTrade
    \/ Sleep
    \/ Cooldown
    \/ Tick

Spec == Init /\ [][Next]_vars

\* The same engine over a store that holds open positions only.
InitOpen ==
    \E st \in SeedStores({OpenSeed(s) : s \in StrategyIds}) :
        EngineStarts(st) /\ calc = NoCalc /\ self_strategies = {}

SpecOpen == InitOpen /\ [][Next]_vars

\* An open SELL position found in the store, as _execute_trade writes it for entry
\* 100: stop 102, target 97.
SellSeed(s) == TradeRow(s, R(100), Frac(1, 100), R(102), R(97))

NoSweep ==
    [fn |-> "sweep", trade |-> 0, price |-> Zero, should_close |-> FALSE,
     closed |-> FALSE, profit_loss |-> NULL]

\* The same engine over a store of open BUY and SELL positions, with the sweep under
\* check.
InitSweep ==
    \E st \in SeedStores({OpenSeed(s) : s \in StrategyIds}
                         \cup {SellSeed(s) : s \in StrategyIds}) :
        EngineStarts(st) /\ calc = NoSweep /\ self_strategies = {}

SpecSweep == InitSweep /\ [][Next]_vars

NoFetch == [fn |-> "fetch", strategy |-> 0, iter |-> 0, ok |-> FALSE, missing |-> {}]

\* The same engine over a store of open positions, with the data path under check.
InitFetch ==
    \E st \in SeedStores({OpenSeed(s) : s \in StrategyIds}) :
        EngineStarts(st) /\ calc = NoFetch /\ self_strategies = {}

SpecFetch == InitFetch /\ [][Next]_vars

NoExecuted ==
    [fn |-> "exec", strategy |-> 0, iter |-> 0, signal |-> "NONE",
     env |-> AllGood(R(100)), daily |-> Zero, allowed |-> FALSE, raised |-> FALSE,
     ordered |-> FALSE, quantity |-> NULL, persisted |-> FALSE]

\* The same engine with _execute_trade under check, over a store that holds an open
\* position of strategy 1 and trades of it closed today with a loss or a profit of 6.
InitExec ==
    \E st \in SeedStores({OpenSeed(1), ClosedSeed(1, 2, -6), ClosedSeed(1, 2, 6)}) :
        EngineStarts(st) /\ calc = NoExecuted /\ self_strategies = {}

SpecExec == InitExec /\ [][Next]_vars

\* remove_strategy calls made while the loop is under check, at most.
MaxRemove == 2

\* The ids remove_strategy is called with: those of the store and one it does not hold.
RemoveIds == StrategyIds \cup {Cardinality(StrategyIds) + 1}

NoRemove == [fn |-> "remove", n |-> 0, id |-> 0, found |-> FALSE, committed |-> FALSE]

\* TradingEngine.remove_strategy(strategy_id), called by a request handler while the
\* worker runs.  When the store fails the exception is logged (line 341) and nothing
\* was written.
RemoveStrategy(strategy_id) ==
    /\ calc.fn = "remove"
    /\ calc.n < MaxRemove
    /\ \E db \in BOOLEAN :
          LET found == db /\ strategy_id \in DOMAIN strategies
          IN  /\ strategies' = IF found
                               THEN [strategies EXCEPT ![strategy_id].is_active = FALSE]
                               ELSE strategies
              /\ self_strategies' = IF found THEN self_strategies \ {strategy_id}
                                    ELSE self_strategies
              /\ calc' = [fn |-> "remove", n |-> calc.n + 1, id |-> strategy_id,
                          found |-> found, committed |-> found]
    /\ UNCHANGED <<trades, today, pc, loaded, sidx, active, tidx, session, iter, pause,
                   ordersPlaced, closeOk, lastExec, threadVars, instance>>

\* The engine over a store of one open position, its dictionary holding any of the
\* ids, with remove_strategy under check.
InitRemove ==
    /\ EngineStarts(<<OpenSeed(1)>>)
    /\ calc = NoRemove
    /\ self_strategies \in SUBSET StrategyIds

NextRemove ==
    \/ LoadStrategies
    \/ ProcessStrategy
    \/ LoadTrades
    \/ SweepTrade
    \/ Sleep
    \/ Cooldown
    \/ Tick
    \/ \E strategy_id \in RemoveIds : RemoveStrategy(strategy_id)

SpecRemove == InitRemove /\ [][NextRemove]_vars

(***************************************************************************)
(* The two position sizing functions, applied to the same inputs.          *)
(***************************************************************************)
\* Balance, gold price, stop_loss_percent (0, 1.5, 2) and position_size (0.01, 0.016
\* and 1 lot).  No quotient of these is an exact tie for round(x, 2).
SizingInputs ==
    [balance           : {R(-1000), R(0), R(20), R(10000)},
     price             : {R(-2000), R(0), R(1900), R(2000)},
     stop_loss_percent : {R(0), Frac(3, 2), R(2)},
     position_size     : {Frac(1, 100), Frac(16, 1000), R(1)}]

\* No strategy is active, the store holds no trade and the worker does not run.
EngineAtRest ==
    /\ strategies = [s \in StrategyIds |-> StrategyRow(FALSE)]
    /\ trades = <<>>
    /\ today = 2
    /\ pc = "stopped"
    /\ loaded = <<>>
    /\ sidx = 0
    /\ active = <<>>
    /\ tidx = 0
    /\ session = "none"
    /\ iter = 0
    /\ pause = 0
    /\ ordersPlaced = [s \in StrategyIds |-> 0]
    /\ closeOk = <<>>
    /\ lastExec = NoExec
    /\ self_strategies = {}
    /\ instance = Constructed

InitSizing ==
    /\ EngineAtRest
    /\ NoThreads
    /\ \E in \in SizingInputs :
           calc = [fn |-> "sizing", in |-> in, engine_done |-> FALSE, engine |-> Zero,
                   strategy_done |-> FALSE, strategy |-> Raised]

\* self._calculate_position_size(strategy) with the broker answering `balance`.
EngineSizing ==
    /\ calc.fn = "sizing"
    /\ ~calc.engine_done
    /\ calc' = [calc EXCEPT
                   !.engine_done = TRUE,
                   !.engine = _calculate_position_size(
                                  [position_size     |-> calc.in.position_size,
                                   stop_loss_percent |-> calc.in.stop_loss_percent],
                                  Ok(calc.in.balance))]
    /\ UNCHANGED <<engineVars, threadVars>>

\* GoldStrategy(config).calculate_position_size(balance) with the broker answering
\* `price`.
StrategySizing ==
    /\ calc.fn = "sizing"
    /\ ~calc.strategy_done
    /\ calc' = [calc EXCEPT
                   !.strategy_done = TRUE,
                   !.strategy = calculate_position_size(
                                    [position_size     |-> calc.in.position_size,
                                     stop_loss_percent |-> calc.in.stop_loss_percent],
                                    calc.in.balance, Ok(calc.in.price))]
    /\ UNCHANGED <<engineVars, threadVars>>

NextSizing == EngineSizing \/ StrategySizing

SpecSizing == InitSizing /\ [][NextSizing]_vars

(***************************************************************************)
(* The exit prices of the engine and of GoldStrategy, for the same inputs. *)
(***************************************************************************)
\* GoldStrategy.calculate_exit_prices: both prices are rounded to 2 decimals.
calculate_exit_prices(self, entry_price, side) ==
    LET stop_loss ==
            IF side = "BUY"
            THEN Mul(entry_price, Sub(R(1), Div(self.stop_loss_percent, R(100))))
            ELSE Mul(entry_price, Add(R(1), Div(self.stop_loss_percent, R(100))))
        take_profit ==
            IF side = "BUY"
            THEN Mul(entry_price, Add(R(1), Div(self.take_profit_percent, R(100))))
            ELSE Mul(entry_price, Sub(R(1), Div(self.take_profit_percent, R(100))))
    IN  [stop_loss |-> Round2(stop_loss), take_profit |-> Round2(take_profit)]

\* Entry price (1, 100, 100.006, 2000), stop_loss_percent (0.4, 2),
\* take_profit_percent (0.4, 3) and side.  No product of these is an exact tie for
\* round(x, 2).
ExitInputs ==
    [entry_price         : {R(1), R(100), Frac(100006, 1000), R(2000)},
     stop_loss_percent   : {Frac(2, 5), R(2)},
     take_profit_percent : {Frac(2, 5), R(3)},
     side                : {"BUY", "SELL"}]

NoExit == [stop_loss |-> Zero, take_profit |-> Zero]

InitExit ==
    /\ EngineAtRest
    /\ NoThreads
    /\ \E in \in ExitInputs :
           calc = [fn |-> "exit", in |-> in, engine_done |-> FALSE, engine |-> NoExit,
                   strategy_done |-> FALSE, strategy |-> NoExit]

\* self._calculate_stop_loss and self._calculate_take_profit, as _execute_trade calls
\* them (lines 138-139).
EngineExit ==
    /\ calc.fn = "exit"
    /\ ~calc.engine_done
    /\ calc' = [calc EXCEPT
                   !.engine_done = TRUE,
                   !.engine = [stop_loss   |-> _calculate_stop_loss(
                                                   calc.in.entry_price, calc.in,
                                                   calc.in.side),
                               take_profit |-> _calculate_take_profit(
                                                   calc.in.entry_price, calc.in,
                                                   calc.in.side)]]
    /\ UNCHANGED <<engineVars, threadVars>>

\* GoldStrategy(config).calculate_exit_prices(entry_price, side).
StrategyExit ==
    /\ calc.fn = "exit"
    /\ ~calc.strategy_done
    /\ calc' = [calc EXCEPT
                   !.strategy_done = TRUE,
                   !.strategy = calculate_exit_prices(calc.in, calc.in.entry_price,
                                                      calc.in.side)]
    /\ UNCHANGED <<engineVars, threadVars>>

NextExit == EngineExit \/ StrategyExit

SpecExit == InitExit /\ [][NextExit]_vars

(***************************************************************************)
(* start(), stop() and the worker threads.                                 *)
(*                                                                         *)
(* The request handlers of routes/trade_routes.py call start() and stop()  *)
(* of the one TradingEngine from the server's threads.  Every read and     *)
(* write of self.running and self.thread is a step of its own; the body of *)
(* one pass of _run is a single step that returns or raises.               *)
(***************************************************************************)
\* Calls each handler makes, at most.
MaxCalls == 2

\* Threads created, at most.
MaxWorkers == 3

\* The engine and the pure functions are not under check here.
InitThreads == EngineAtRest /\ NoThreads /\ calc = NoCalc

Returned(c, ret) == [calls EXCEPT ![c].pc = "out", ![c].ret = ret, ![c].joins = 0]

StartsInProgress ==
    Cardinality({c \in Callers : calls[c].op = "start" /\ calls[c].pc # "out"})

\* A request handler enters start() or stop().
BeginCall(c) ==
    /\ calls[c].pc = "out"
    /\ calls[c].n < MaxCalls
    /\ \E op \in {"start", "stop"} :
          /\ op = "start" => Len(workers) + StartsInProgress < MaxWorkers
          /\ calls' = [calls EXCEPT ![c] = [op |-> op, pc |-> "check", n |-> @.n + 1,
                                            saw |-> FALSE, seen |-> 0,
                                            joins |-> 0, ret |-> "none"]]
    /\ UNCHANGED <<running, thread, workers>>
    /\ UNCHANGED <<engineVars, calc>>

\* The mutant of the guard of start() that is always true.
start_unguarded(is_running) == TRUE

\* start(), line 35: `if not self.running`.
start_guard(is_running) == ~is_running

\* start(), line 35: the flag is read; when it is set start() returns.
StartCheck(c) ==
    /\ calls[c].op = "start" /\ calls[c].pc = "check"
    /\ calls' = IF start_guard(running)
                THEN [calls EXCEPT ![c].pc = "set", ![c].saw = running]
                ELSE [Returned(c, "returned") EXCEPT ![c].saw = running]
    /\ UNCHANGED <<running, thread, workers>>
    /\ UNCHANGED <<engineVars, calc>>

\* start(), line 36: self.running = True.
StartSet(c) ==
    /\ calls[c].op = "start" /\ calls[c].pc = "set"
    /\ running' = TRUE
    /\ calls' = [calls EXCEPT ![c].pc = "create"]
    /\ UNCHANGED <<thread, workers>>
    /\ UNCHANGED <<engineVars, calc>>

\* start(), lines 37-38: self.thread = threading.Thread(target=self._run).
StartCreate(c) ==
    /\ calls[c].op = "start" /\ calls[c].pc = "create"
    /\ workers' = Append(workers, "unstarted")
    /\ thread' = Len(workers) + 1
    /\ calls' = [calls EXCEPT ![c].pc = "launch"]
    /\ UNCHANGED running
    /\ UNCHANGED <<engineVars, calc>>

\* start(), line 39: self.thread.start(), on whatever self.thread now is; starting a
\* thread a second time raises RuntimeError.
StartLaunch(c) ==
    /\ calls[c].op = "start" /\ calls[c].pc = "launch"
    /\ IF workers[thread] = "unstarted"
       THEN /\ workers' = [workers EXCEPT ![thread] = "test"]
            /\ calls' = Returned(c, "returned")
       ELSE /\ workers' = workers
            /\ calls' = Returned(c, "raised")
    /\ UNCHANGED <<running, thread>>
    /\ UNCHANGED <<engineVars, calc>>

\* stop(), line 44: `if self.running`.
StopCheck(c) ==
    /\ calls[c].op = "stop" /\ calls[c].pc = "check"
    /\ calls' = IF running
                THEN [calls EXCEPT ![c].pc = "clear", ![c].saw = TRUE]
                ELSE Returned(c, "returned")
    /\ UNCHANGED <<running, thread, workers>>
    /\ UNCHANGED <<engineVars, calc>>

\* stop(), line 45: self.running = False.  `seen` keeps how many threads had been
\* created by then.
StopClear(c) ==
    /\ calls[c].op = "stop" /\ calls[c].pc = "clear"
    /\ running' = FALSE
    /\ calls' = [calls EXCEPT ![c].pc = "if", ![c].seen = Len(workers)]
    /\ UNCHANGED <<thread, workers>>
    /\ UNCHANGED <<engineVars, calc>>

\* stop(), line 46: `if self.thread`.
StopIfThread(c) ==
    /\ calls[c].op = "stop" /\ calls[c].pc = "if"
    /\ calls' = IF thread = 0 THEN Returned(c, "returned")
                ELSE [calls EXCEPT ![c].pc = "join"]
    /\ UNCHANGED <<running, thread, workers>>
    /\ UNCHANGED <<engineVars, calc>>

\* stop(), line 47: self.thread is read again and join() is called on it; joining a
\* thread that was not started raises RuntimeError.
StopJoin(c) ==
    /\ calls[c].op = "stop" /\ calls[c].pc = "join"
    /\ calls' = IF workers[thread] = "unstarted" THEN Returned(c, "raised")
                ELSE [calls EXCEPT ![c].pc = "wait", ![c].joins = thread]
    /\ UNCHANGED <<running, thread, workers>>
    /\ UNCHANGED <<engineVars, calc>>

\* stop(), lines 47-48: join() returns when the thread has ended.
StopReturn(c) ==
    /\ calls[c].op = "stop" /\ calls[c].pc = "wait"
    /\ workers[calls[c].joins] = "done"
    /\ calls' = Returned(c, "returned")
    /\ UNCHANGED <<running, thread, workers>>
    /\ UNCHANGED <<engineVars, calc>>

\* _run, line 52: `while self.running`.
RunTest(w) ==
    /\ w \in DOMAIN workers
    /\ workers[w] = "test"
    /\ workers' = [workers EXCEPT ![w] = IF running THEN "body" ELSE "done"]
    /\ UNCHANGED <<running, thread, calls>>
    /\ UNCHANGED <<engineVars, calc>>

\* The mutant of the try statement of _run that has no handler.
run_propagates(outcome) == IF outcome = "raised" THEN "done" ELSE "sleep1"

\* _run, lines 53-59: where the worker goes when _process_strategies and
\* _monitor_trades have returned, or an exception has left them.
run_handler(outcome) == IF outcome = "raised" THEN "sleep5" ELSE "sleep1"

\* _run, lines 54-55: one pass of _process_strategies and _monitor_trades.
RunBody(w) ==
    /\ w \in DOMAIN workers
    /\ workers[w] = "body"
    /\ \E outcome \in {"returned", "raised"} :
          workers' = [workers EXCEPT ![w] = run_handler(outcome)]
    /\ UNCHANGED <<running, thread, calls>>
    /\ UNCHANGED <<engineVars, calc>>

\* _run, lines 56 and 59: time.sleep returns.
RunSleep(w) ==
    /\ w \in DOMAIN workers
    /\ workers[w] \in {"sleep1", "sleep5"}
    /\ workers' = [workers EXCEPT ![w] = "test"]
    /\ UNCHANGED <<running, thread, calls>>
    /\ UNCHANGED <<engineVars, calc>>

\* Constructions of TradingEngine, at most.
MaxConstruct == 3

\* __new__, lines 18-22: the object the class holds, made when there is none.
new_instance(held, fresh) == IF held = 0 THEN fresh ELSE held

\* The mutant of the guard of __init__ that is always true.
init_unguarded(initialized) == TRUE

\* __init__, line 25: `if not hasattr(self, 'initialized')`.
init_guard(initialized) == ~initialized

\* TradingEngine(): __new__ and then __init__ on the object it returned, as
\* initialize_trading_engine of app.py calls it from a request thread.
Construct ==
    /\ instance.made < MaxConstruct
    /\ LET obj == new_instance(instance._instance, instance.made + 1)
           again == obj # instance._instance \/ init_guard(instance.initialized)
       IN  /\ instance' = [_instance |-> obj, initialized |-> TRUE,
                           broker |-> IF again THEN instance.made + 1
                                      ELSE instance.broker,
                           made |-> instance.made + 1, returned |-> obj]
           /\ running' = IF again THEN FALSE ELSE running
           /\ thread' = IF again THEN 0 ELSE thread
           /\ self_strategies' = IF again THEN {} ELSE self_strategies
    /\ UNCHANGED <<strategies, trades, today, pc, loaded, sidx, active, tidx, session,
                   iter, pause, ordersPlaced, closeOk, lastExec, calc, workers, calls>>

NextThreads ==
    \/ Construct
    \/ \E c \in Callers :
          \/ BeginCall(c)
          \/ StartCheck(c)
          \/ StartSet(c)
          \/ StartCreate(c)
          \/ StartLaunch(c)
          \/ StopCheck(c)
          \/ StopClear(c)
          \/ StopIfThread(c)
          \/ StopJoin(c)
          \/ StopReturn(c)
    \/ \E w \in 1..MaxWorkers :
          \/ RunTest(w)
          \/ RunBody(w)
          \/ RunSleep(w)

SpecThreads == InitThreads /\ [][NextThreads]_vars

(***************************************************************************)
(* PuPrimeAPI._make_request: one call, from the signing of the parameters  *)
(* to the return or the raise.  The clock `now` stands for time.time() and *)
(* advances while the call sleeps.                                         *)
(***************************************************************************)
MaxRetry == 3

Methods == {"GET", "POST", "DELETE", "PATCH"}

Supported == {"GET", "POST", "DELETE"}

\* hmac over the urlencoded parameters: what matters is which timestamp it covers.
generate_signature(params) == [key |-> "api_secret", over |-> params.timestamp]

Unsigned == [timestamp |-> -1, signature |-> [key |-> "", over |-> -1]]

delay_constant(attempt) == 1

\* time.sleep(2 ** attempt)
backoff_delay(attempt) == 2 ^ attempt

RequestInputs ==
    [fn : {"request"}, method : Methods, signed : BOOLEAN, retry_count : 0..MaxRetry,
     at : {"sign"}, attempt : {0}, now : {0}, params : {Unsigned},
     sent : {<< >>}, slept : {<< >>}]

InitRequest == EngineAtRest /\ NoThreads /\ calc \in RequestInputs

\* params['timestamp'] and params['signature'] are set here, ahead of the loop.
RequestSign ==
    /\ calc.fn = "request"
    /\ calc.at = "sign"
    /\ calc' = [calc EXCEPT
                  !.params = IF calc.signed
                             THEN LET stamped == [timestamp |-> calc.now]
                                  IN  [timestamp |-> calc.now,
                                       signature |-> generate_signature(stamped)]
                             ELSE Unsigned,
                  !.at = "loop"]
    /\ UNCHANGED <<engineVars, threadVars>>

\* range(retry_count) is exhausted without a return or a raise: the call returns None.
RequestFallThrough ==
    /\ calc.fn = "request"
    /\ calc.at = "loop"
    /\ calc.attempt >= calc.retry_count
    /\ calc' = [calc EXCEPT !.at = "returned_none"]
    /\ UNCHANGED <<engineVars, threadVars>>

\* One pass of the loop body up to the return, the raise or the sleep.
RequestAttempt ==
    /\ calc.fn = "request"
    /\ calc.at = "loop"
    /\ calc.attempt < calc.retry_count
    /\ IF calc.method \notin Supported
       THEN calc' = [calc EXCEPT !.at = "raised_value_error"]
       ELSE \E ok \in BOOLEAN :
              LET wire == [at |-> calc.now, ok |-> ok,
                           timestamp |-> calc.params.timestamp,
                           signature |-> calc.params.signature]
              IN  calc' = [calc EXCEPT
                             !.sent = Append(calc.sent, wire),
                             !.at = IF ok THEN "returned"
                                    ELSE IF calc.attempt = calc.retry_count - 1
                                         THEN "raised"
                                         ELSE "backoff"]
    /\ UNCHANGED <<engineVars, threadVars>>

RequestBackoff ==
    /\ calc.fn = "request"
    /\ calc.at = "backoff"
    /\ calc' = [calc EXCEPT
                  !.slept = Append(calc.slept, backoff_delay(calc.attempt)),
                  !.now = calc.now + backoff_delay(calc.attempt),
                  !.attempt = calc.attempt + 1,
                  !.at = "loop"]
    /\ UNCHANGED <<engineVars, threadVars>>

NextRequest ==
    \/ RequestSign
    \/ RequestFallThrough
    \/ RequestAttempt
    \/ RequestBackoff

SpecRequest == InitRequest /\ [][NextRequest]_vars

(***************************************************************************)
(* The signal functions: GoldStrategy.check_trend, check_support_resistance,*)
(* check_entry_conditions and check_exit_conditions, and the engine's       *)
(* _generate_signal, applied to the latest values of the indicator series.  *)
(***************************************************************************)
\* A float that is not a number: every ordered comparison with it is false.
NaN == [n |-> 0, d |-> 0]

check_trend_inclusive(ema_short, ema_medium, ema_long) ==
    IF Le(ema_medium, ema_short) /\ Le(ema_long, ema_medium) /\ ema_short # NaN
          /\ ema_medium # NaN /\ ema_long # NaN
    THEN "UPTREND"
    ELSE IF Le(ema_short, ema_medium) /\ Le(ema_medium, ema_long) /\ ema_short # NaN
               /\ ema_medium # NaN /\ ema_long # NaN
         THEN "DOWNTREND"
         ELSE "NEUTRAL"

\* GoldStrategy.check_trend on the latest EMA(9), EMA(21), EMA(50).
check_trend(ema_short, ema_medium, ema_long) ==
    IF Lt(ema_medium, ema_short) /\ Lt(ema_long, ema_medium) THEN "UPTREND"
    ELSE IF Lt(ema_short, ema_medium) /\ Lt(ema_medium, ema_long) THEN "DOWNTREND"
    ELSE "NEUTRAL"

Elements(seq) == {seq[i] : i \in DOMAIN seq}

\* max and min of a non-empty set of numbers.
MaxOf(S) == CHOOSE x \in S : \A y \in S : Le(y, x)

MinOf(S) == CHOOSE x \in S : \A y \in S : Le(x, y)

\* None, for the level that does not exist.
NoLevel == [n |-> 0, d |-> -1]

\* GoldStrategy.check_support_resistance over the two lists of levels.
check_support_resistance(price, support_levels, resistance_levels) ==
    LET supports_below    == {s \in Elements(support_levels) : Lt(s, price)}
        resistances_above == {r \in Elements(resistance_levels) : Lt(price, r)}
    IN  [nearest_support    |-> IF supports_below # {} THEN MaxOf(supports_below)
                                ELSE NoLevel,
         nearest_resistance |-> IF resistances_above # {} THEN MinOf(resistances_above)
                                ELSE NoLevel]

check_entry_conditions_without_levels(in) ==
    LET trend == check_trend(in.ema_short, in.ema_medium, in.ema_long)
    IN  IF /\ trend = "UPTREND"
           /\ Lt(in.rsi, R(70))
           /\ Lt(in.signal, in.macd)
           /\ Lt(in.bb_middle, in.price)
        THEN "BUY"
        ELSE IF /\ trend = "DOWNTREND"
                /\ Lt(R(30), in.rsi)
                /\ Lt(in.macd, in.signal)
                /\ Lt(in.price, in.bb_middle)
             THEN "SELL"
             ELSE "NONE"

\* GoldStrategy.check_entry_conditions: the side of the entry, or NONE.
check_entry_conditions(in) ==
    LET trend  == check_trend(in.ema_short, in.ema_medium, in.ema_long)
        levels == check_support_resistance(in.price, in.support_levels,
                                           in.resistance_levels)
    IN  IF /\ trend = "UPTREND"
           /\ Lt(in.rsi, R(70))
           /\ Lt(in.signal, in.macd)
           /\ Lt(in.bb_middle, in.price)
           /\ levels.nearest_support # NoLevel
        THEN "BUY"
        ELSE IF /\ trend = "DOWNTREND"
                /\ Lt(R(30), in.rsi)
                /\ Lt(in.macd, in.signal)
                /\ Lt(in.price, in.bb_middle)
                /\ levels.nearest_resistance # NoLevel
             THEN "SELL"
             ELSE "NONE"

\* GoldStrategy.check_exit_conditions.
check_exit_conditions(in) ==
    LET hundred == R(100)
        one     == R(1)
    IN  IF in.side = "BUY"
        THEN \/ Lt(R(70), in.rsi)
             \/ Lt(in.macd, in.signal)
             \/ Lt(in.price,
                   Mul(in.entry_price, Sub(one, Div(in.stop_loss_percent, hundred))))
        ELSE IF in.side = "SELL"
             THEN \/ Lt(in.rsi, R(30))
                  \/ Lt(in.signal, in.macd)
                  \/ Lt(Mul(in.entry_price,
                            Add(one, Div(in.stop_loss_percent, hundred))),
                        in.price)
             ELSE FALSE

EmaValues == {R(1), R(2), R(3), NaN}

RsiValues == {R(25), R(30), R(50), R(70), R(75), NaN}

\* (MACD line, signal line): above, equal, below.
MacdPairs == {<<R(1), R(0)>>, <<R(0), R(0)>>, <<R(0), R(1)>>}

LevelLists == {<< >>, <<R(99)>>, <<R(100)>>, <<R(101)>>, <<R(101), R(99)>>}

TrendInputs ==
    [fn : {"trend"}, done : {FALSE}, out : {"NONE"},
     ema_short : EmaValues, ema_medium : EmaValues, ema_long : EmaValues]

EntryInputs ==
    {[fn |-> "entry", done |-> FALSE, out |-> "NONE",
      ema_short |-> e[1], ema_medium |-> e[2], ema_long |-> e[3],
      rsi |-> rsi, macd |-> mp[1], signal |-> mp[2],
      price |-> R(100), bb_middle |-> bb,
      support_levels |-> sl, resistance_levels |-> rl] :
        e \in {<<R(3), R(2), R(1)>>, <<R(1), R(2), R(3)>>, <<R(2), R(2), R(1)>>},
        rsi \in RsiValues, mp \in MacdPairs, bb \in {R(99), R(100), R(101)},
        sl \in LevelLists, rl \in LevelLists}

ExitCheckInputs ==
    {[fn |-> "exit_check", done |-> FALSE, out |-> "NONE",
      side |-> side, rsi |-> rsi, macd |-> mp[1], signal |-> mp[2],
      entry_price |-> R(100), stop_loss_percent |-> R(2), price |-> p] :
        side \in {"BUY", "SELL", "HOLD"}, rsi \in RsiValues, mp \in MacdPairs,
        p \in {R(97), R(98), R(99), R(100), R(101), R(102), R(103)}}

Thresholds == {R(30), R(50), R(70), NULL}

CoarseInputs ==
    {[fn |-> "coarse", done |-> FALSE, out |-> "NONE",
      strategy   |-> [rsi_oversold |-> lo, rsi_overbought |-> hi],
      indicators |-> [rsi |-> rsi, fast_ema |-> f, slow_ema |-> s]] :
        lo \in Thresholds, hi \in Thresholds,
        rsi \in {R(20), R(30), R(50), R(70), R(80), NaN},
        f \in {R(1), R(2)}, s \in {R(1), R(2)}}

InitSignals ==
    /\ EngineAtRest
    /\ NoThreads
    /\ calc \in TrendInputs \cup EntryInputs \cup ExitCheckInputs \cup CoarseInputs

CheckTrend ==
    /\ calc.fn = "trend"
    /\ ~calc.done
    /\ calc' = [calc EXCEPT
                  !.done = TRUE,
                  !.out = check_trend(calc.ema_short, calc.ema_medium, calc.ema_long)]
    /\ UNCHANGED <<engineVars, threadVars>>

CheckEntry ==
    /\ calc.fn = "entry"
    /\ ~calc.done
    /\ calc' = [calc EXCEPT !.done = TRUE, !.out = check_entry_conditions(calc)]
    /\ UNCHANGED <<engineVars, threadVars>>

CheckExit ==
    /\ calc.fn = "exit_check"
    /\ ~calc.done
    /\ calc' = [calc EXCEPT
                  !.done = TRUE,
                  !.out = IF check_exit_conditions(calc) THEN "EXIT" ELSE "HOLD"]
    /\ UNCHANGED <<engineVars, threadVars>>

GenerateSignal ==
    /\ calc.fn = "coarse"
    /\ ~calc.done
    /\ calc' = [calc EXCEPT
                  !.done = TRUE,
                  !.out = _generate_signal(calc.strategy, calc.indicators)]
    /\ UNCHANGED <<engineVars, threadVars>>

NextSignals ==
    \/ CheckTrend
    \/ CheckEntry
    \/ CheckExit
    \/ GenerateSignal

SpecSignals == InitSignals /\ [][NextSignals]_vars

(***************************************************************************)
(* TechnicalIndicators.calculate_rsi and calculate_support_resistance over *)
(* short price series.  Series are 1-based here; position i of the source  *)
(* is index i + 1.                                                         *)
(***************************************************************************)
\* Bars in a series, at most.
MaxBars == 4

\* A float division whose divisor is zero and whose dividend is positive.
Inf == [n |-> 1, d |-> 0]

\* delta = close.diff(): NaN at the first bar.
diff(close) ==
    [i \in DOMAIN close |-> IF i = 1 THEN NaN ELSE Sub(close[i], close[i - 1])]

\* delta.where(delta > 0, 0) and -delta.where(delta < 0, 0): a NaN fails the test and
\* is replaced by 0.
gains(delta) == [i \in DOMAIN delta |-> IF Lt(Zero, delta[i]) THEN delta[i] ELSE Zero]

losses(delta) ==
    [i \in DOMAIN delta |-> IF Lt(delta[i], Zero) THEN Sub(Zero, delta[i]) ELSE Zero]

RECURSIVE SumOver(_, _, _)
SumOver(series, lo, hi) ==
    IF lo > hi THEN Zero ELSE Add(series[lo], SumOver(series, lo + 1, hi))

\* series.rolling(window=period).mean(): NaN until the window is full.
rolling_mean(series, period) ==
    [i \in DOMAIN series |->
        IF i < period THEN NaN
        ELSE Div(SumOver(series, i - period + 1, i), R(period))]

\* Division of two floats of a pandas Series (non-negative here): no exception.
float_div(a, b) ==
    IF a = NaN \/ b = NaN THEN NaN
    ELSE IF b.n = 0 THEN (IF a.n = 0 THEN NaN ELSE Inf)
    ELSE Div(a, b)

\* 100 - (100 / (1 + rs))
rsi_of(rs) ==
    IF rs = NaN THEN NaN
    ELSE IF rs = Inf THEN Sub(R(100), Zero)
    ELSE Sub(R(100), Div(R(100), Add(R(1), rs)))

\* TechnicalIndicators.calculate_rsi.
calculate_rsi(close, period) ==
    LET delta == diff(close)
        gain  == rolling_mean(gains(delta), period)
        loss  == rolling_mean(losses(delta), period)
    IN  [i \in DOMAIN close |-> rsi_of(float_div(gain[i], loss[i]))]

Extreme(S, side) == IF side = "max" THEN MaxOf(S) ELSE MinOf(S)

\* series.rolling(window=window, center=True).max() or .min(): the window of the bar
\* at position k ends at k + (window - 1) // 2; NaN where it does not fit.
rolling_center(series, window, side) ==
    [j \in DOMAIN series |->
        LET hi == (j - 1) + ((window - 1) \div 2)
            lo == hi - window + 1
        IN  IF lo < 0 \/ hi > Len(series) - 1 THEN NaN
            ELSE Extreme({series[x + 1] : x \in lo..hi}, side)]

\* rolled[i-window:i+window].max() or .min(), which skip NaN.
slice_extreme(rolled, i, window, side) ==
    LET S == {rolled[x + 1] : x \in (i - window)..(i + window - 1)} \ {NaN}
    IN  IF S = {} THEN NaN ELSE Extreme(S, side)

\* The loop over range(window, len - window) from position i on.
RECURSIVE collect_levels(_, _, _, _, _, _)
collect_levels(rolled, i, window, threshold, side, levels) ==
    IF i >= Len(rolled) - window THEN levels
    ELSE LET x    == rolled[i + 1]
             peak == x # NaN /\ x = slice_extreme(rolled, i, window, side)
             near == \E k \in DOMAIN levels :
                        Lt(Div(Abs(Sub(levels[k], x)), x), threshold)
         IN  collect_levels(rolled, i + 1, window, threshold, side,
                            IF peak /\ ~near THEN Append(levels, x) ELSE levels)

\* TechnicalIndicators.calculate_support_resistance.
calculate_support_resistance(high, low, window, threshold) ==
    [support_levels    |-> collect_levels(rolling_center(low, window, "min"), window,
                                          window, threshold, "min", << >>),
     resistance_levels |-> collect_levels(rolling_center(high, window, "max"), window,
                                          window, threshold, "max", << >>)]

BarPrices == {R(1), R(2), R(3)}

Series == UNION {[1..k -> BarPrices] : k \in 1..MaxBars}

RsiInputs ==
    [fn : {"rsi"}, done : {FALSE}, out : {<< >>}, close : Series, period : {2}]

\* high and low of each bar, low <= high, with window 1.
LevelInputs ==
    {[fn |-> "levels", done |-> FALSE, out |-> << >>, high |-> hs, low |-> ls,
      window |-> 1, threshold |-> th] :
        hs \in [1..MaxBars -> BarPrices],
        ls \in [1..MaxBars -> BarPrices],
        th \in {Frac(1, 2), Frac(1, 50)}}

InitIndicators ==
    /\ EngineAtRest
    /\ NoThreads
    /\ calc \in RsiInputs \cup {in \in LevelInputs :
                                   \A i \in DOMAIN in.high : Le(in.low[i], in.high[i])}

CalculateRsi ==
    /\ calc.fn = "rsi"
    /\ ~calc.done
    /\ calc' = [calc EXCEPT !.done = TRUE,
                            !.out = calculate_rsi(calc.close, calc.period)]
    /\ UNCHANGED <<engineVars, threadVars>>

CalculateSupportResistance ==
    /\ calc.fn = "levels"
    /\ ~calc.done
    /\ calc' = [calc EXCEPT
                  !.done = TRUE,
                  !.out = calculate_support_resistance(calc.high, calc.low,
                                                       calc.window, calc.threshold)]
    /\ UNCHANGED <<engineVars, threadVars>>

NextIndicators ==
    \/ CalculateRsi
    \/ CalculateSupportResistance

SpecIndicators == InitIndicators /\ [][NextIndicators]_vars

(***************************************************************************)
(* add_strategy and the create_strategy request handler, called from the   *)
(* server's threads while the loop runs.  Each call is one step: its       *)
(* session is the calling thread's own, and what it commits is in the      *)
(* store when the step ends.                                               *)
(***************************************************************************)
\* Calls of add_strategy and create_strategy while the loop is under check, at most.
MaxAdd == 2

\* database/models.py, class Strategy: the columns declared nullable=False.
not_null_columns ==
    {"name", "symbol", "timeframe", "position_size", "stop_loss_percent",
     "take_profit_percent", "max_daily_loss"}

\* create_strategy, lines 194-201: the keys read with data[...].
subscripted_keys ==
    {"name", "position_size", "stop_loss_percent", "take_profit_percent",
     "max_daily_loss"}

\* A configuration: the not-null columns it names, and whether it carries a key that
\* is no attribute of Strategy.  The incomplete ones lack `name`, which the handler
\* subscripts, or `symbol`, which the handler defaults.
StrategyData ==
    {[fields |-> not_null_columns \ missing, unknown |-> FALSE] :
        missing \in {{}, {"name"}, {"symbol"}}}
    \cup {[fields |-> not_null_columns, unknown |-> TRUE]}

\* The row a configuration gives: is_active takes its default, the indicator columns
\* are not given.
NewStrategyRow ==
    [StrategyRow(TRUE) EXCEPT !.rsi_oversold = NULL, !.rsi_overbought = NULL]

\* The mutant of the store's NOT NULL check that accepts every row.
integrity_unchecked(fields) == TRUE

\* session.commit() of line 322: the INSERT fails on a NULL in a not-null column.
integrity_ok(fields) == not_null_columns \subseteq fields

\* TradingEngine.add_strategy: the rows it commits, the exception met inside its try
\* block and whether one leaves the method.  Strategy(**strategy_data) raises
\* TypeError on a key that is no attribute (line 320), commit raises on a violated
\* constraint or an unreachable store (line 322); the session block rolls back and
\* the handler of line 326 logs every Exception.
add_strategy(strategy_data, db) ==
    LET error == IF strategy_data.unknown THEN "TypeError"
                 ELSE IF ~integrity_ok(strategy_data.fields) THEN "IntegrityError"
                 ELSE IF ~db THEN "OperationalError"
                 ELSE "none"
    IN  [rows   |-> IF error = "none" THEN <<NewStrategyRow>> ELSE <<>>,
         error  |-> error,
         raised |-> FALSE]

NoAdd ==
    [fn |-> "add", n |-> 0, op |-> "none", data |-> [fields |-> {}, unknown |-> FALSE],
     committed |-> {}, remembered |-> {}, error |-> "none", raised |-> FALSE]

\* The ids the store gives to `rows` appended to table `strategies`.
NewIds(rows) ==
    {Cardinality(DOMAIN strategies) + i : i \in 1..Len(rows)}

\* trading_engine.add_strategy(strategy_data), called on its own.
AddStrategy(strategy_data) ==
    /\ calc.fn = "add"
    /\ calc.n < MaxAdd
    /\ \E db \in BOOLEAN :
          LET eff == add_strategy(strategy_data, db)
          IN  /\ strategies' = strategies \o eff.rows
              /\ self_strategies' = self_strategies \cup NewIds(eff.rows)
              /\ calc' = [fn |-> "add", n |-> calc.n + 1, op |-> "add_strategy",
                          data |-> strategy_data, committed |-> NewIds(eff.rows),
                          remembered |-> NewIds(eff.rows), error |-> eff.error,
                          raised |-> eff.raised]
    /\ UNCHANGED <<trades, today, pc, loaded, sidx, active, tidx, session, iter, pause,
                   ordersPlaced, closeOk, lastExec, threadVars, instance>>

\* POST /strategies, create_strategy: a missing subscripted key raises KeyError
\* before anything is added (lines 194-201) and line 218 catches it; else the handler
\* inserts and commits its own row, symbol and timeframe defaulted (lines 192-206),
\* and then hands the same data to add_strategy (line 209).
CreateStrategy(data) ==
    /\ calc.fn = "add"
    /\ calc.n < MaxAdd
    /\ \E db \in BOOLEAN, db_again \in BOOLEAN :
          LET own    == IF subscripted_keys \subseteq data.fields /\ db
                        THEN <<NewStrategyRow>> ELSE <<>>
              eff    == add_strategy(data, db_again)
              engine == IF own = <<>> THEN <<>> ELSE eff.rows
              rows   == own \o engine
          IN  /\ strategies' = strategies \o rows
              /\ self_strategies' =
                     self_strategies \cup (NewIds(rows) \ NewIds(own))
              /\ calc' = [fn |-> "add", n |-> calc.n + 1, op |-> "create_strategy",
                          data |-> data, committed |-> NewIds(rows),
                          remembered |-> NewIds(rows) \ NewIds(own),
                          error |-> IF own = <<>> THEN "create" ELSE eff.error,
                          raised |-> FALSE]
    /\ UNCHANGED <<trades, today, pc, loaded, sidx, active, tidx, session, iter, pause,
                   ordersPlaced, closeOk, lastExec, threadVars, instance>>

\* The engine over a store of one open position, strategy 1 active and strategy 2
\* not, with add_strategy and create_strategy under check.
InitAdd ==
    /\ EngineStarts(<<OpenSeed(1)>>)
    /\ strategies = [s \in StrategyIds |-> StrategyRow(s = 1)]
    /\ calc = NoAdd
    /\ self_strategies = {}

NextAdd ==
    \/ LoadStrategies
    \/ ProcessStrategy
    \/ LoadTrades
    \/ SweepTrade
    \/ Sleep
    \/ Cooldown
    \/ Tick
    \/ \E strategy_data \in StrategyData : AddStrategy(strategy_data)
    \/ \E data \in StrategyData : CreateStrategy(data)

SpecAdd == InitAdd /\ [][NextAdd]_vars

(***************************************************************************)
(* GoldStrategy.run: one call over the price data `data`, from             *)
(* initialize_indicators to the return or the raise.  Every call of the    *)
(* broker is a step that answers or raises.                                *)
(***************************************************************************)
\* The positions the broker can report: none, one or two, long or short, entered
\* at 100.
Position(id, side) == [id |-> id, side |-> side, entry_price |-> R(100)]

PositionLists ==
    {<< >>}
    \cup {<<Position(1, a)>> : a \in {"BUY", "SELL"}}
    \cup {<<Position(1, a), Position(2, b)>> : a \in {"BUY", "SELL"}, b \in {"BUY", "SELL"}}

\* The last bar of the price data and the indicators over it, at price 100 between a
\* support at 99 and a resistance at 101.
RunInputs ==
    {[fn |-> "run", at |-> "initialize", asked |-> FALSE, open_positions |-> << >>,
      i |-> 0, entry_evaluated |-> FALSE, side |-> "NONE", exits |-> {}, closed |-> {},
      orders |-> 0,
      data |-> [ema_short |-> e[1], ema_medium |-> e[2], ema_long |-> e[3],
                rsi |-> rsi, macd |-> mp[1], signal |-> mp[2],
                price |-> R(100), bb_middle |-> bb,
                support_levels |-> <<R(99)>>, resistance_levels |-> <<R(101)>>,
                stop_loss_percent |-> R(2)]] :
        e \in {<<R(3), R(2), R(1)>>, <<R(1), R(2), R(3)>>},
        rsi \in {R(25), R(50), R(75)}, mp \in MacdPairs, bb \in {R(99), R(101)}}

InitRun == EngineAtRest /\ NoThreads /\ calc \in RunInputs

\* The mutant of the test of line 356 that never finds a position.
no_open_positions(open_positions) == FALSE

\* run, line 356: `if open_positions`.
has_open_positions(open_positions) == open_positions # << >>

\* run, line 350: self.initialize_indicators(data).
RunInitialize ==
    /\ calc.fn = "run"
    /\ calc.at = "initialize"
    /\ \E ok \in BOOLEAN :
          calc' = [calc EXCEPT !.at = IF ok THEN "positions" ELSE "raised"]
    /\ UNCHANGED <<engineVars, threadVars>>

\* run, lines 353-356: self.broker.get_open_positions() and the branch on its answer.
RunGetOpenPositions ==
    /\ calc.fn = "run"
    /\ calc.at = "positions"
    /\ \E ok \in BOOLEAN, open_positions \in PositionLists :
          calc' = IF ~ok THEN [calc EXCEPT !.at = "raised"]
                  ELSE [calc EXCEPT
                          !.asked = TRUE,
                          !.open_positions = open_positions,
                          !.i = 1,
                          !.at = IF has_open_positions(open_positions)
                                 THEN "exits" ELSE "entry"]
    /\ UNCHANGED <<engineVars, threadVars>>

\* run, lines 357-365: check_exit_conditions on the next reported position and,
\* when it holds, broker.modify_position, which answers or raises.
RunCheckExit ==
    /\ calc.fn = "run"
    /\ calc.at = "exits"
    /\ LET position == calc.open_positions[calc.i]
           exit     == check_exit_conditions(
                           [side |-> position.side, rsi |-> calc.data.rsi,
                            macd |-> calc.data.macd, signal |-> calc.data.signal,
                            entry_price |-> position.entry_price,
                            stop_loss_percent |-> calc.data.stop_loss_percent,
                            price |-> calc.data.price])
           last     == calc.i = Len(calc.open_positions)
       IN  \E ok \in BOOLEAN :
              calc' = [calc EXCEPT
                         !.exits = @ \cup {position.id},
                         !.closed = IF exit /\ ok THEN @ \cup {position.id} ELSE @,
                         !.i = IF last THEN @ ELSE @ + 1,
                         !.at = IF exit /\ ~ok THEN "raised"
                                ELSE IF last THEN "returned" ELSE "exits"]
    /\ UNCHANGED <<engineVars, threadVars>>

\* run, lines 368-371: check_entry_conditions(data).
RunCheckEntry ==
    /\ calc.fn = "run"
    /\ calc.at = "entry"
    /\ LET side == check_entry_conditions(calc.data)
       IN  calc' = [calc EXCEPT !.entry_evaluated = TRUE,
                                !.side = side,
                                !.at = IF side = "NONE" THEN "returned" ELSE "execute"]
    /\ UNCHANGED <<engineVars, threadVars>>

\* run, line 373, and execute_trade (lines 209-262): the account and the price are
\* read, the order is placed, the trade is stored; the first call that fails raises.
RunExecuteTrade ==
    /\ calc.fn = "run"
    /\ calc.at = "execute"
    /\ \E failing \in {"none", "get_account_info", "get_gold_price", "place_order",
                       "commit"} :
          calc' = [calc EXCEPT
                     !.orders = IF failing \in {"none", "commit"} THEN @ + 1 ELSE @,
                     !.at = IF failing = "none" THEN "returned" ELSE "raised"]
    /\ UNCHANGED <<engineVars, threadVars>>

NextRun ==
    \/ RunInitialize
    \/ RunGetOpenPositions
    \/ RunCheckExit
    \/ RunCheckEntry
    \/ RunExecuteTrade

SpecRun == InitRun /\ [][NextRun]_vars

(***************************************************************************)
(* Properties.                                                             *)
(***************************************************************************)
Neg(a) == [n |-> -a.n, d |-> a.d]

Positive(a) == Lt(Zero, a)

\* The open positions of a strategy on a symbol.
OpenPositions(s, symbol) ==
    {i \in DOMAIN trades : /\ trades[i].strategy_id = s
                           /\ trades[i].symbol = symbol
                           /\ IsOpen(trades[i])}

\* The realized PnL of the trades of strategy s closed on day `since` or later.
RECURSIVE PnlSince(_, _, _)
PnlSince(s, since, i) ==
    IF i = 0 THEN Zero
    ELSE Add(PnlSince(s, since, i - 1),
             IF /\ trades[i].strategy_id = s
                /\ trades[i].exit_time # NULL
                /\ Le(R(since), trades[i].exit_time)
                /\ trades[i].profit_loss # NULL
             THEN trades[i].profit_loss
             ELSE Zero)

\* The Monday of the week of day d (day 0 is a Sunday).
Monday(d) == d - ((d + 6) % 7)

\* The trades closed today sum to a loss of max_daily_loss or more.
DailyLossReached(s) ==
    Le(strategies[s].max_daily_loss, Neg(PnlSince(s, today, Len(trades))))

\* The trades closed since Monday 00:00 sum to a loss of MAX_WEEKLY_LOSS or more.
WeeklyLossReached(s) ==
    Le(R(MAX_WEEKLY_LOSS), Neg(PnlSince(s, Monday(today), Len(trades))))

ExitUnset(trade) ==
    trade.exit_price = NULL /\ trade.exit_time = NULL /\ trade.profit_loss = NULL

ExitSet(trade) ==
    trade.exit_price # NULL /\ trade.exit_time # NULL /\ trade.profit_loss # NULL

\* C1: in every state the store holds at most one open position (status EXECUTED, no
\* exit_time) per strategy and symbol, however often a BUY or SELL signal repeats.
C1_AtMostOneOpenPosition ==
    \A s \in StrategyIds : Cardinality(OpenPositions(s, "XAUUSD")) <= 1

\* A strategy that holds an open position got a BUY or SELL signal in a later pass
\* of the loop, and _execute_trade ran for it with every call answering.
C1_Witness ==
    \E s \in StrategyIds :
        /\ OpenPositions(s, "XAUUSD") # {}
        /\ iter >= 1
        /\ pc = "monitor"
        /\ lastExec.strategy = s
        /\ lastExec.signal \in {"BUY", "SELL"}
        /\ lastExec.clean

\* C2: a position the broker has closed for a sweep was closed for exactly one sweep,
\* and its record has made the transition from open to closed.
C2_ClosedExactlyOnce ==
    \A t \in DOMAIN trades :
        closeOk[t] >= 1 => closeOk[t] = 1 /\ ~IsOpen(trades[t])

\* C3: a position a sweep has closed is not returned by the open-position query of
\* _monitor_trades and get_active_trades any more.
C3_ClosedLeavesOpenQuery ==
    \A t \in DOMAIN trades :
        closeOk[t] >= 1 =>
            \A k \in DOMAIN get_active_trades : get_active_trades[k] # t

\* C4: every committed trade row has exit_price, exit_time and profit_loss all unset
\* and is open, or has all three set and status CLOSED.
C4_ExitFieldsAtomic ==
    \A i \in DOMAIN trades :
        \/ ExitUnset(trades[i]) /\ IsOpen(trades[i])
        \/ ExitSet(trades[i]) /\ trades[i].status = "CLOSED"

\* _close_trade failed part-way: the broker closed the position, the session block
\* raised, and the committed row is still open with no exit column set.
C4_Witness ==
    \E i \in DOMAIN trades :
        closeOk[i] >= 1 /\ ExitUnset(trades[i]) /\ IsOpen(trades[i])

\* C5: no step places an order for a strategy whose trades closed today sum to a
\* loss of max_daily_loss or more.
C5_NoOrderAfterDailyLoss ==
    [][\A s \in StrategyIds :
           DailyLossReached(s) => ordersPlaced'[s] = ordersPlaced[s]]_vars

\* _execute_trade ran on a signal for a strategy whose daily loss limit is reached,
\* with every call answering, and placed no order.
C5_Witness ==
    \E s \in StrategyIds :
        /\ DailyLossReached(s)
        /\ lastExec.strategy = s
        /\ lastExec.clean
        /\ ~lastExec.ordered

\* C6: while the trades a strategy closed since Monday 00:00 sum to a loss of
\* MAX_WEEKLY_LOSS or more, every run of the gate for it rejects and no step places
\* an order for it.
C6_NoOrderAfterWeeklyLoss ==
    [][\A s \in StrategyIds :
           WeeklyLossReached(s) =>
               /\ ordersPlaced'[s] = ordersPlaced[s]
               /\ (lastExec' # lastExec /\ lastExec'.strategy = s
                       => ~lastExec'.allowed)]_vars

\* The gate ran for a strategy whose weekly loss limit is reached and whose daily
\* limit is not, with every call answering, and rejected.
C6_Witness ==
    \E s \in StrategyIds :
        /\ WeeklyLossReached(s)
        /\ ~DailyLossReached(s)
        /\ PnlSince(s, today, Len(trades)) = Zero
        /\ lastExec.strategy = s
        /\ lastExec.clean
        /\ ~lastExec.allowed
        /\ ~lastExec.ordered

\* C7: a call of _execute_trade on a BUY or SELL signal, for a strategy whose daily
\* and weekly losses are below their limits and with every broker and store call
\* answering, places exactly one order and commits exactly one trade row.
C7_OneOrderPerSignal ==
    [][\A s \in StrategyIds :
           /\ lastExec' # lastExec
           /\ lastExec'.strategy = s
           /\ lastExec'.clean
           /\ ~DailyLossReached(s)
           /\ ~WeeklyLossReached(s)
           => /\ ordersPlaced'[s] = ordersPlaced[s] + 1
              /\ Len(trades') = Len(trades) + 1
              /\ trades'[Len(trades')].strategy_id = s]_vars

\* C8: for balance > 0, price > 0 and stop_loss_percent > 0 the size computed by
\* either function is at most the configured position_size.
C8_SizeWithinMaxLot ==
    /\ Positive(calc.in.balance)
    /\ Positive(calc.in.price)
    /\ Positive(calc.in.stop_loss_percent)
    => /\ calc.engine_done => Le(calc.engine, calc.in.position_size)
       /\ calc.strategy_done /\ calc.strategy.ok
              => Le(calc.strategy.val, calc.in.position_size)

\* C9: for balance <= 0 or price <= 0 (and stop_loss_percent > 0) either function
\* returns zero (and does not raise).
C9_ZeroOnNonPositiveInput ==
    /\ Le(calc.in.balance, Zero) \/ Le(calc.in.price, Zero)
    /\ Positive(calc.in.stop_loss_percent)
    => /\ calc.engine_done => calc.engine = Zero
       /\ calc.strategy_done => calc.strategy = Ok(Zero)

\* C10: for balance, price and stop_loss_percent > 0 the engine's size equals
\* min(position_size, (balance * slp/100) / (price * slp/100)).
C10_EngineSizeFollowsPrice ==
    /\ calc.engine_done
    /\ Positive(calc.in.balance)
    /\ Positive(calc.in.price)
    /\ Positive(calc.in.stop_loss_percent)
    => calc.engine =
           Min(calc.in.position_size,
               Div(Mul(calc.in.balance, Div(calc.in.stop_loss_percent, R(100))),
                   Mul(calc.in.price, Div(calc.in.stop_loss_percent, R(100)))))

\* The exit prices lie on the two sides of the entry price that `side` asks for.
Bracketed(side, entry_price, exits) ==
    IF side = "BUY"
    THEN Lt(exits.stop_loss, entry_price) /\ Lt(entry_price, exits.take_profit)
    ELSE Lt(entry_price, exits.stop_loss) /\ Lt(exits.take_profit, entry_price)

\* C11: for entry price, stop_loss_percent and take_profit_percent > 0 the exit prices
\* of the engine and of GoldStrategy.calculate_exit_prices satisfy
\* stop_loss < entry_price < take_profit for BUY and the reverse for SELL.
C11_ExitPricesBracketEntry ==
    /\ Positive(calc.in.entry_price)
    /\ Positive(calc.in.stop_loss_percent)
    /\ Positive(calc.in.take_profit_percent)
    => /\ calc.engine_done
              => Bracketed(calc.in.side, calc.in.entry_price, calc.engine)
       /\ calc.strategy_done
              => Bracketed(calc.in.side, calc.in.entry_price, calc.strategy)

\* Trade has no side column (models.py 38-60): a position is a SELL when its stop lies
\* above its entry price (stop_loss > entry_price > take_profit).
IsSell(trade) == Lt(trade.entry_price, trade.stop_loss)

\* (exit_price - entry_price) * quantity, negated for a SELL position.
RealizedPnl(trade, exit_price) ==
    LET pnl == Mul(Sub(exit_price, trade.entry_price), trade.quantity)
    IN  IF IsSell(trade) THEN Neg(pnl) ELSE pnl

\* C12: when a sweep has closed a position, the profit_loss _close_trade computed and
\* the profit_loss of the committed row are (exit_price - entry_price) * quantity for
\* a BUY and the negation of it for a SELL.
C12_RealizedPnlBySide ==
    calc.fn = "sweep" /\ calc.trade # 0 /\ calc.closed
    => /\ calc.profit_loss = RealizedPnl(trades[calc.trade], calc.price)
       /\ trades[calc.trade].profit_loss = RealizedPnl(trades[calc.trade], calc.price)

\* The price has reached the stop or the target of the position, in the direction of
\* its side.
Crossed(trade, price) ==
    IF IsSell(trade)
    THEN Le(trade.stop_loss, price) \/ Le(price, trade.take_profit)
    ELSE Le(price, trade.stop_loss) \/ Le(trade.take_profit, price)

\* C13: a sweep closes a position only when the price has crossed its stop or its
\* target: not a SELL while take_profit < price < stop_loss, not a BUY while
\* stop_loss < price < take_profit.
C13_ClosedOnlyWhenCrossed ==
    calc.fn = "sweep" /\ calc.trade # 0 /\ calc.should_close
    => Crossed(trades[calc.trade], calc.price)

\* C14: a start() call that finds the running flag set returns at once and changes
\* neither the flag, nor self.thread, nor any worker thread; no later step of that
\* call exists.
C14_StartWhileRunningIsNoOp ==
    [][\A c \in Callers :
           /\ calls[c].op = "start"
           /\ calls'[c] # calls[c]
           /\ (calls[c].pc = "check" /\ running) \/ (calls[c].pc # "out" /\ calls[c].saw)
           => /\ calls'[c].pc = "out"
              /\ calls'[c].ret = "returned"
              /\ running' = running
              /\ thread' = thread
              /\ workers' = workers]_vars

\* A start() call has returned after finding the flag set, while the one worker of
\* the engine is inside a pass of its loop.
C14_Witness ==
    \E c \in Callers :
        /\ calls[c].op = "start" /\ calls[c].pc = "out" /\ calls[c].saw
        /\ running
        /\ workers = <<"body">>

\* Workers inside _process_strategies/_monitor_trades.
InBody == {w \in DOMAIN workers : workers[w] = "body"}

\* C15: at no time are two passes of the loop in progress at once.
C15_OneIterationAtATime == Cardinality(InBody) <= 1

\* C16: when a stop() call that found the engine running returns, every worker thread
\* that existed when it cleared the flag has ended (or was never started): none is
\* inside a pass of the loop or will begin one.
C16_StopReturnsAfterWorkerEnded ==
    [][\A c \in Callers :
           /\ calls[c].op = "stop" /\ calls[c].saw
           /\ calls[c].pc # "out" /\ calls'[c].pc = "out"
           /\ calls'[c].ret = "returned"
           => \A w \in 1..calls[c].seen : workers'[w] \in {"done", "unstarted"}]_vars

\* C20: a worker ends only at the test of its while loop, with the flag cleared;
\* while the flag is set no worker ends, whether its passes return or raise.
C20_WorkerEndsOnlyWhenStopped ==
    [][\A w \in DOMAIN workers :
           workers[w] # "done" /\ workers'[w] = "done"
           => workers[w] = "test" /\ ~running]_vars

\* A pass of the loop has raised while the flag is set, and the worker is in the
\* sleep of the handler.
C20_Witness ==
    \E w \in DOMAIN workers : workers[w] = "sleep5" /\ running

\* C17: whatever happens while one strategy is processed, the loop goes on to the
\* next strategy it loaded, and after the last one to the position sweep.
C17_StrategyFailureIsolated ==
    [][pc = "strategies" /\ <<pc, sidx>>' # <<pc, sidx>>
       => IF sidx < Len(loaded)
          THEN pc' = "strategies" /\ sidx' = sidx + 1 /\ loaded' = loaded
          ELSE pc' = "monitor"]_vars

\* C18: every pass of the loop of _run ends after the position sweep: the pass is
\* counted from the sleep that follows _monitor_trades.
C18_SweepInEveryIteration ==
    [][iter' = iter + 1 => pc = "sleep"]_vars

\* C19: after an exception has reached _run the worker sleeps 5 and after a pass
\* that returned it sleeps 1; a new pass begins only out of one of the two sleeps.
C19_PauseBeforeNextIteration ==
    [][/\ pc = "cooldown" /\ pc' # pc => pc' = "idle" /\ pause' = 5
       /\ pc = "sleep" /\ pc' # pc => pc' = "idle" /\ pause' = 1
       /\ pc # "idle" /\ pc' = "idle" => pc \in {"sleep", "cooldown"}
       /\ pc = "idle" /\ pc' # "idle" /\ iter > 0 => pause \in {1, 5}]_vars

\* An exception left _process_strategies after _execute_trade had run, and the worker
\* has slept 5 since.
C19_Witness ==
    /\ pc = "idle"
    /\ iter >= 1
    /\ pause = 5
    /\ lastExec.strategy # 0

Failures(sent) == {k \in DOMAIN sent : ~sent[k].ok}

C22_FreshSignaturePerAttempt ==
    calc.fn = "request" /\ calc.signed =>
      \A k \in DOMAIN calc.sent :
         /\ calc.sent[k].timestamp = calc.sent[k].at
         /\ calc.sent[k].signature.over = calc.sent[k].at

Distinct3(a, b, c) == a # b /\ b # c /\ a # c

\* C23: check_trend answers UPTREND exactly when EMA(9) > EMA(21) > EMA(50),
\* DOWNTREND exactly when EMA(9) < EMA(21) < EMA(50), NEUTRAL otherwise, and so
\* NEUTRAL whenever two of the three are equal.
C23_TrendIsStrictOrdering ==
    calc.fn = "trend" /\ calc.done =>
      LET s == calc.ema_short
          m == calc.ema_medium
          l == calc.ema_long
      IN  /\ calc.out = "UPTREND" <=> Lt(m, s) /\ Lt(l, m)
          /\ calc.out = "DOWNTREND" <=> Lt(s, m) /\ Lt(m, l)
          /\ calc.out \in {"UPTREND", "DOWNTREND", "NEUTRAL"}
          /\ ~Distinct3(s, m, l) => calc.out = "NEUTRAL"

\* Short and medium EMA are equal and above the long one: the answer is NEUTRAL.
C23_Witness ==
    /\ calc.fn = "trend"
    /\ calc.done
    /\ calc.ema_short = calc.ema_medium
    /\ Lt(calc.ema_long, calc.ema_medium)
    /\ calc.out = "NEUTRAL"

SupportBelow(in) == \E i \in DOMAIN in.support_levels : Lt(in.support_levels[i], in.price)

ResistanceAbove(in) ==
    \E i \in DOMAIN in.resistance_levels : Lt(in.price, in.resistance_levels[i])

BuySetup(in) ==
    /\ Lt(in.ema_medium, in.ema_short) /\ Lt(in.ema_long, in.ema_medium)
    /\ Lt(in.rsi, R(70))
    /\ Lt(in.signal, in.macd)
    /\ Lt(in.bb_middle, in.price)
    /\ SupportBelow(in)

SellSetup(in) ==
    /\ Lt(in.ema_short, in.ema_medium) /\ Lt(in.ema_medium, in.ema_long)
    /\ Lt(R(30), in.rsi)
    /\ Lt(in.macd, in.signal)
    /\ Lt(in.price, in.bb_middle)
    /\ ResistanceAbove(in)

\* C24: check_entry_conditions answers BUY exactly on an uptrend with RSI < 70, MACD
\* above its signal line, close above the middle band and a support below the price;
\* SELL exactly on the mirrored conditions with a resistance above the price; nothing
\* otherwise; and the two sets of conditions never hold together.
C24_EntryConditions ==
    calc.fn = "entry" =>
      /\ ~(BuySetup(calc) /\ SellSetup(calc))
      /\ calc.done =>
           /\ calc.out = "BUY" <=> BuySetup(calc)
           /\ calc.out = "SELL" <=> SellSetup(calc)
           /\ calc.out \in {"BUY", "SELL", "NONE"}

\* Every condition of a BUY holds but the only support level is not below the price:
\* no entry.
C24_Witness ==
    /\ calc.fn = "entry"
    /\ calc.done
    /\ Lt(calc.ema_medium, calc.ema_short) /\ Lt(calc.ema_long, calc.ema_medium)
    /\ Lt(calc.rsi, R(70))
    /\ Lt(calc.signal, calc.macd)
    /\ Lt(calc.bb_middle, calc.price)
    /\ calc.support_levels = <<R(100)>>
    /\ calc.out = "NONE"

StopLevel(in) ==
    IF in.side = "BUY"
    THEN Mul(in.entry_price, Sub(R(1), Div(in.stop_loss_percent, R(100))))
    ELSE Mul(in.entry_price, Add(R(1), Div(in.stop_loss_percent, R(100))))

\* C25: check_exit_conditions answers true for a BUY exactly when RSI > 70, or MACD is
\* below its signal line, or the price is at or below the stop level; for a SELL
\* exactly when RSI < 30, or MACD is above its signal line, or the price is at or
\* above the stop level.
C25_ExitAtStopLevel ==
    calc.fn = "exit_check" /\ calc.done =>
      /\ calc.side = "BUY" =>
           (calc.out = "EXIT" <=> \/ Lt(R(70), calc.rsi)
                                  \/ Lt(calc.macd, calc.signal)
                                  \/ Le(calc.price, StopLevel(calc)))
      /\ calc.side = "SELL" =>
           (calc.out = "EXIT" <=> \/ Lt(calc.rsi, R(30))
                                  \/ Lt(calc.signal, calc.macd)
                                  \/ Le(StopLevel(calc), calc.price))

FetchedNow == calc'.fn = "fetch" /\ calc' # calc

\* C27: a frame that lacks a required column is rejected before any indicator is
\* read from it: the strategy it was fetched for gets no signal and no order in that
\* pass, nothing is written, and the loop goes on to the next strategy it loaded (to
\* the position sweep after the last one).
C27_IncompleteDataRejected ==
    [][FetchedNow /\ calc'.ok /\ calc'.missing # {}
       => /\ calc'.strategy = loaded[sidx]
          /\ lastExec' = lastExec
          /\ ordersPlaced' = ordersPlaced
          /\ trades' = trades
          /\ session' \in {session, "none"}
          /\ IF sidx < Len(loaded)
             THEN pc' = "strategies" /\ sidx' = sidx + 1 /\ loaded' = loaded
                  /\ session' = session
             ELSE pc' = "monitor"]_vars

\* The first of two loaded strategies was given a frame without its volume column,
\* and the loop stands at the second with its instances still attached.
C27_Witness ==
    /\ calc.fn = "fetch"
    /\ calc.ok
    /\ calc.missing = {"volume"}
    /\ pc = "strategies"
    /\ sidx = 2
    /\ calc.strategy = loaded[1]
    /\ session = "attached"

\* The bars whose trailing window of `period` deltas lies inside the series and has
\* no falling delta.
NoLossWindows(close, period) ==
    {i \in DOMAIN close :
        /\ i > period
        /\ \A j \in (i - period + 1)..i : Le(close[j - 1], close[j])}

\* C28: calculate_rsi is exactly 100 wherever the trailing window has no loss, flat
\* windows included, and every value it defines lies between 0 and 100.
C28_RsiWithoutLossIsHundred ==
    calc.fn = "rsi" /\ calc.done =>
      /\ \A i \in NoLossWindows(calc.close, calc.period) : calc.out[i] = R(100)
      /\ \A i \in DOMAIN calc.out :
            calc.out[i] # NaN => Le(Zero, calc.out[i]) /\ Le(calc.out[i], R(100))

\* The distance of two levels as the merge test takes it: relative to the later one.
RelativeDistance(earlier, later) == Div(Abs(Sub(earlier, later)), later)

WellSeparated(levels, threshold) ==
    \A j, k \in DOMAIN levels :
        j < k => Lt(threshold, RelativeDistance(levels[j], levels[k]))

\* C29: any two levels of the support list, and any two of the resistance list, lie
\* further apart than the threshold, relative distance taken.
C29_LevelsSeparatedByThreshold ==
    calc.fn = "levels" /\ calc.done =>
      /\ WellSeparated(calc.out.support_levels, calc.threshold)
      /\ WellSeparated(calc.out.resistance_levels, calc.threshold)

RemoveCalled == calc'.fn = "remove" /\ calc' # calc

\* C30: a pass works on the strategies that are active in the store when it loads
\* them, whatever the in-memory dictionary holds, and on no strategy that was not
\* loaded; so a strategy whose removal is committed is in no pass loaded later.
\* remove_strategy writes the active flag of that strategy and drops its dictionary
\* entry, nothing else, and changes nothing for an id the store does not hold.
C30_RemovedStrategyLeavesTheLoop ==
    [][/\ pc = "idle" /\ pc' = "strategies"
          => \A s \in StrategyIds : s \in Elements(loaded') <=> strategies[s].is_active
       /\ pc = "idle" /\ pc' = "monitor"
          => \A s \in StrategyIds : ~strategies[s].is_active
       /\ pc # "idle" => Elements(loaded') \subseteq Elements(loaded)
       /\ lastExec' # lastExec => lastExec'.strategy = loaded[sidx]
       /\ \A s \in StrategyIds :
             ordersPlaced'[s] # ordersPlaced[s] => s = loaded[sidx]
       /\ strategies' # strategies \/ self_strategies' # self_strategies
          => RemoveCalled /\ calc'.committed
       /\ RemoveCalled
          => /\ UNCHANGED <<trades, today, pc, loaded, sidx, active, tidx, session,
                            iter, pause, ordersPlaced, closeOk, lastExec, threadVars>>
             /\ calc'.committed => calc'.id \in StrategyIds
             /\ IF calc'.committed
                THEN /\ strategies' =
                            [strategies EXCEPT ![calc'.id].is_active = FALSE]
                     /\ self_strategies' = self_strategies \ {calc'.id}
                ELSE UNCHANGED <<strategies, self_strategies>>]_vars

\* A strategy that a pass had executed a signal for was removed, and a later pass
\* has loaded the strategies without it.
C30_Witness ==
    /\ calc.fn = "remove"
    /\ calc.committed
    /\ lastExec.strategy = calc.id
    /\ ~strategies[calc.id].is_active
    /\ iter >= 1
    /\ pc = "strategies"
    /\ calc.id \notin Elements(loaded)

ExecutedNow == calc'.fn = "exec" /\ calc' # calc

ExecutedTradeOf(s) ==
    \E i \in DOMAIN trades : trades[i].strategy_id = s /\ trades[i].status = "EXECUTED"

C35_RiskGateFailsClosed ==
    [][ExecutedNow /\ calc'.raised
       => /\ ~calc'.allowed
          /\ ~calc'.ordered
          /\ ordersPlaced' = ordersPlaced
          /\ trades' = trades]_vars

\* The store answered, the daily sum was under the limit, and the weekly computation
\* raised: the gate answered False.
C35_Witness ==
    /\ calc.fn = "exec"
    /\ calc.strategy # 0
    /\ calc.env.db
    /\ Lt(Abs(calc.daily), strategies[calc.strategy].max_daily_loss)
    /\ calc.raised
    /\ ~calc.allowed

\* C38: trades closed today that sum to a profit never make the daily-loss check
\* reject, however large the profit: the gate does not return False from its daily
\* branch (a False without an exception).
C38_ProfitNotCountedAsLoss ==
    [][ExecutedNow /\ calc'.env.db /\ Positive(calc'.daily)
       => ~(~calc'.allowed /\ ~calc'.raised)]_vars

SweepStep == pc = "sweep" /\ <<pc, tidx>>' # <<pc, tidx>>

\* C36: when close_position fails, the row of the position keeps every column (it is
\* still open, no exit column set) and the next sweep loads it again with every other
\* open row; a row changes only in a step in which the broker closed its position.
C36_FailedCloseLeavesPositionOpen ==
    [][/\ /\ SweepStep
          /\ calc'.fn = "sweep"
          /\ calc'.trade = active[tidx]
          /\ calc'.should_close
          /\ ~calc'.closed
          => /\ trades' = trades
             /\ closeOk' = closeOk
             /\ IsOpen(trades'[calc'.trade])
             /\ ExitUnset(trades'[calc'.trade])
       /\ pc = "monitor" /\ pc' = "sweep"
          => \A t \in DOMAIN trades : IsOpen(trades[t]) => t \in Elements(active')
       /\ \A t \in DOMAIN trades :
             trades'[t] # trades[t] => closeOk'[t] = closeOk[t] + 1]_vars

\* close_position failed for a position in one sweep, and a later sweep has loaded
\* that position again and stands before it.
C36_Witness ==
    /\ calc.fn = "sweep"
    /\ calc.trade # 0
    /\ calc.should_close
    /\ ~calc.closed
    /\ pc = "sweep"
    /\ iter >= 1
    /\ tidx = 1
    /\ active[1] = calc.trade
    /\ IsOpen(trades[calc.trade])

\* C37: while the instances of the sweep are attached, the sweep goes from each open
\* position to the next one it loaded, whatever the price fetch of that position
\* does.
C37_PriceFailureIsolated ==
    [][SweepStep /\ session = "attached" /\ tidx < Len(active)
       => pc' = "sweep" /\ tidx' = tidx + 1 /\ active' = active]_vars
\* C39: every construction TradingEngine() returns the one instance and leaves its
\* state alone: the running flag, the worker thread reference, the threads and the
\* broker client are what they were, so start() still finds the flag set.
C39_ConstructedOnce ==
    [][instance'.made # instance.made
          => /\ instance'.returned = instance._instance
             /\ instance'._instance = instance._instance
             /\ instance'.broker = instance.broker
             /\ running' = running
             /\ thread' = thread
             /\ workers' = workers
             /\ self_strategies' = self_strategies
             /\ (running => ~start_guard(running'))]_vars

\* The engine was constructed again while its worker was inside the loop body.
C39_Witness ==
    /\ instance.made >= 2
    /\ running
    /\ thread # 0
    /\ workers[thread] = "body"
AddedNow == calc'.fn = "add" /\ calc'.n # calc.n

\* C31: add_strategy with a configuration that lacks a required field adds nothing:
\* the store and the in-memory dictionary are what they were, the call returns
\* without an exception, and the loop goes on over the strategies it had.
C31_IncompleteStrategyRejected ==
    [][AddedNow /\ calc'.op = "add_strategy"
          /\ ~(not_null_columns \subseteq calc'.data.fields)
          => /\ strategies' = strategies
             /\ self_strategies' = self_strategies
             /\ calc'.committed = {}
             /\ ~calc'.raised
             /\ ActiveStrategies' = ActiveStrategies
             /\ <<pc, loaded, sidx, session, iter>>' = <<pc, loaded, sidx, session, iter>>]_vars

\* add_strategy has refused a configuration without a name, a strategy added before
\* it is in the store and the loop is processing the active strategies.
C31_Witness ==
    /\ calc.fn = "add"
    /\ calc.op = "add_strategy"
    /\ calc.n = 2
    /\ "name" \notin calc.data.fields
    /\ ~calc.data.unknown
    /\ calc.committed = {}
    /\ Cardinality(DOMAIN strategies) = Cardinality(StrategyIds) + 1
    /\ pc = "strategies"
    /\ loaded[sidx] = Cardinality(StrategyIds) + 1

\* C40: one create_strategy request that commits leaves exactly one new record in
\* the store, and that record is active.
C40_OneRecordPerRequest ==
    [][AddedNow /\ calc'.op = "create_strategy" /\ calc'.committed # {}
          => /\ Cardinality(calc'.committed) = 1
             /\ Len(ActiveStrategies') = Len(ActiveStrategies) + 1]_vars
PositionIds(open_positions) == {open_positions[i].id : i \in DOMAIN open_positions}

\* C32: in one call of GoldStrategy.run the entry conditions are evaluated only when
\* the broker has reported no open position, the exit conditions only for positions
\* it has reported, never both, and an order is placed only on the entry branch.
C32_EntryAndExitExclusive ==
    calc.fn = "run"
        => /\ calc.entry_evaluated => calc.asked /\ calc.open_positions = << >>
           /\ calc.exits \subseteq PositionIds(calc.open_positions)
           /\ calc.closed \subseteq calc.exits
           /\ ~(calc.entry_evaluated /\ calc.exits # {})
           /\ calc.orders > 0 => calc.entry_evaluated /\ calc.open_positions = << >>
           /\ calc.at = "execute" => calc.open_positions = << >>

\* The data held an entry signal, the broker reported two open positions: both were
\* checked for exit, one was closed, and no entry was evaluated or order placed.
C32_Witness ==
    /\ calc.fn = "run"
    /\ calc.at = "returned"
    /\ check_entry_conditions(calc.data) # "NONE"
    /\ Len(calc.open_positions) = 2
    /\ calc.exits = {1, 2}
    /\ calc.closed # {}
    /\ ~calc.entry_evaluated
    /\ calc.orders = 0

====
